---- MODULE Spec2Model ----
(***************************************************************************)
(* A model of figma-console-mcp-cli: the JSON config store                 *)
(* (utils/config.ts), the bridge health check (steps/healthCheck.ts) and   *)
(* the reconciliation batches (steps/doctor.ts, steps/configure.ts, the    *)
(* wizard of index.ts).                                                    *)
(***************************************************************************)
EXTENDS Integers, Sequences, FiniteSets, TLC

(***************************************************************************)
(* JavaScript values.  A value is a one-field record whose field name is   *)
(* its type tag, so that values of different types are unequal without     *)
(* their payloads ever being compared.  An object is a function from its   *)
(* own enumerable keys to values, an array a sequence of values.           *)
(***************************************************************************)
Str(s) == [str |-> s]
Num(n) == [num |-> n]
Lit(l) == [lit |-> l]
Arr(a) == [arr |-> a]
Obj(o) == [obj |-> o]

Null == Lit("null")
Undefined == Lit("undefined")
JTrue == Lit("true")
JFalse == Lit("false")
EmptyMap == [k \in {} |-> Null]
EmptyObj == Obj(EmptyMap)

IsObj(v) == "obj" \in DOMAIN v
IsArr(v) == "arr" \in DOMAIN v
IsStr(v) == "str" \in DOMAIN v
IsNum(v) == "num" \in DOMAIN v
IsNullish(v) == v = Null \/ v = Undefined

\* The characters of the strings that the model ever indexes or spreads.
StrChars(s) ==
  CASE s = "" -> <<>>
    [] s = "ab" -> <<"a", "b">>
    [] s = "x" -> <<"x">>

\* The property key of an array or string index.
IdxKeys == <<"0", "1", "2">>

\* JavaScript truthiness: null, undefined, false, 0 and "" are falsy.
Truthy(v) ==
  ~ ( \/ v = Null
      \/ v = Undefined
      \/ v = JFalse
      \/ v = Num(0)
      \/ v = Str("") )

\* The own enumerable string-keyed properties of a value, as the object
\* spread {...v} copies them.
OwnEntries(v) ==
  CASE IsObj(v) -> v.obj
    [] IsArr(v) -> [k \in {IdxKeys[i] : i \in DOMAIN v.arr} |->
                      v.arr[CHOOSE i \in DOMAIN v.arr : IdxKeys[i] = k]]
    [] IsStr(v) -> [k \in {IdxKeys[i] : i \in DOMAIN StrChars(v.str)} |->
                      Str(StrChars(v.str)[CHOOSE i \in DOMAIN StrChars(v.str) : IdxKeys[i] = k])]
    [] OTHER -> EmptyMap

\* v[k] on a value that is neither null nor undefined.
GetProp(v, k) ==
  IF k \in DOMAIN OwnEntries(v) THEN OwnEntries(v)[k] ELSE Undefined

\* v?.[k]
GetOpt(v, k) == IF IsNullish(v) THEN Undefined ELSE GetProp(v, k)

\* {...a, ...b} on key maps.
Spread(a, b) ==
  [k \in DOMAIN a \cup DOMAIN b |-> IF k \in DOMAIN b THEN b[k] ELSE a[k]]

\* An optional member that is not there.
Absent == [absent |-> TRUE]

ThrowTypeError == [throw |-> "TypeError"]
IsThrow(r) == "throw" \in DOMAIN r

(***************************************************************************)
(* utils/config.ts                                                         *)
(***************************************************************************)

\* A config file on disk: absent, text that JSON.parse rejects, or JSON
\* text, which is represented by the value it denotes.
FileMissing == [file |-> "missing"]
FileMalformed == [file |-> "malformed"]
FileText(v) == [text |-> v]

\* JSON.stringify: a property whose value is undefined is left out, an
\* undefined array element becomes null.
RECURSIVE JsonStringify(_)
JsonStringify(v) ==
  CASE IsObj(v) ->
         Obj([k \in {j \in DOMAIN v.obj : v.obj[j] # Undefined} |->
                JsonStringify(v.obj[k])])
    [] IsArr(v) ->
         Arr([i \in DOMAIN v.arr |->
                IF v.arr[i] = Undefined THEN Null ELSE JsonStringify(v.arr[i])])
    [] OTHER -> v

readJsonConfig(f) ==
  IF "text" \in DOMAIN f THEN f.text ELSE EmptyObj

\* The file that a successful writeJsonConfig(path, data) leaves.
writeJsonConfig(data) == FileText(JsonStringify(data))

NpxMethod == [type |-> "npx"]
LocalMethod(p) == [type |-> "local", path |-> p]

getServerCommand(method) ==
  IF method.type = "local"
    THEN [command |-> Str("node"), args |-> Arr(<<method.path>>)]
    ELSE [command |-> Str("npx"),
          args |-> Arr(<<Str("-y"), Str("figma-console-mcp@latest")>>)]

ServerEntry(token, method) ==
  Obj([command |-> getServerCommand(method).command,
       args |-> getServerCommand(method).args,
       env |-> Obj([FIGMA_ACCESS_TOKEN |-> Str(token),
                    ENABLE_MCP_APPS |-> Str("true")])])

\* A mutant: the other entries of mcpServers are not spread into the result.
mergeServerConfig_DropsServers(existing, token, method) ==
  IF IsNullish(existing)
    THEN ThrowTypeError
    ELSE Obj(Spread(OwnEntries(existing),
                    "mcpServers" :>
                      Obj("figma-console" :> ServerEntry(token, method))))

\* A mutant: the old collection is nested instead of spread.
mergeServerConfig_Nests(existing, token, method) ==
  IF IsNullish(existing)
    THEN ThrowTypeError
    ELSE LET mcpServers == IF Truthy(GetProp(existing, "mcpServers"))
                             THEN GetProp(existing, "mcpServers")
                             ELSE EmptyObj
         IN Obj(Spread(OwnEntries(existing),
                       "mcpServers" :>
                         Obj(("mcpServers" :> mcpServers) @@
                             ("figma-console" :> ServerEntry(token, method)))))

mergeServerConfig(existing, token, method) ==
  IF IsNullish(existing)
    THEN ThrowTypeError
    ELSE LET mcpServers == IF Truthy(GetProp(existing, "mcpServers"))
                             THEN GetProp(existing, "mcpServers")
                             ELSE EmptyObj
         IN Obj(Spread(OwnEntries(existing),
                       "mcpServers" :>
                         Obj(Spread(OwnEntries(mcpServers),
                                    "figma-console" :> ServerEntry(token, method)))))

detectInstallMethodFromConfig(f) ==
  LET config == readJsonConfig(f)
  IN IF IsNullish(config)
       THEN ThrowTypeError
       ELSE LET mcpServers == GetProp(config, "mcpServers")
                figmaConsole == GetOpt(mcpServers, "figma-console")
                args == GetOpt(figmaConsole, "args")
            IN IF /\ GetOpt(figmaConsole, "command") = Str("node")
                  /\ Truthy(GetOpt(args, "0"))
                 THEN LocalMethod(GetOpt(args, "0"))
                 ELSE NpxMethod

(***************************************************************************)
(* The state.                                                              *)
(***************************************************************************)
VARIABLES
  \* the config-store functions applied to one input
  cPc,        \* "input", "merged", "merged2", "written", "detected"
  cx,         \* the existing config
  ct,         \* the token
  cm,         \* the install method
  cOut,       \* mergeServerConfig(cx, ct, cm)
  cOut2,      \* mergeServerConfig(cOut, ct, cm)
  cFile,      \* the config file holding cOut
  cInferred,  \* detectInstallMethodFromConfig(cFile)
  \* the scan and the removal applied to one config file
  fPc,        \* "idle", "input", "scanned", "removed"
  fFile,      \* the config file
  fScanned,   \* scanJsonClient on fFile
  fRemoved,   \* removeJsonEntry on fFile
  \* one run of selectInstallMethod
  mPc,        \* "idle", "select", "git", "dir", "fetch", "install",
              \* "build", "check", "done"
  mDir,       \* targetDir and what is there
  mSteps,     \* the steps run so far, each with its outcome
  mResult,    \* the method returned or the error thrown
  \* the health check
  isTTY,      \* process.stdin.isTTY
  hMethod,    \* runHealthCheck's method: "bridge" or "cdp"
  hPc,        \* where runHealthCheck is: "idle", "confirm", "loop",
              \* "wait", "action", "done"
  hResult,    \* how runHealthCheck ended
  hLog,       \* the lines runHealthCheck has printed
  waits,      \* the number of bridge waits and CDP probes started
  srv,        \* per bridge wait: its server, timer, handlers and promise
  stdin,      \* process.stdin, and the process's 'exit' listeners
  \* the doctor session and the wizard's configuration step
  mode,       \* "idle", "doctor" or "wizard"
  files,      \* the config file of each file-backed client
  cli,        \* the claude CLI: on PATH or not, and its user-scope entry
  bPc,        \* where the session is
  results,    \* the ScanResult[] of the last scan
  batch,      \* the batch being run (or the last one run)
  nBatches,   \* the batches started in this session
  nScans,     \* the scans made in this session
  probe,      \* what the last scan's probes of the claude CLI answered
  \* runCommandWithSpinner
  rPc,        \* "idle", "call", "await" or "done"
  retries,    \* options.retries
  rTimeout,   \* whether options.timeout is set
  attempt,    \* the loop's counter
  att,        \* per attempt: its child, timer, spinner and promise
  rResult     \* how the call ended

fileVars == <<fPc, fFile, fScanned, fRemoved>>
runVars == <<rPc, retries, rTimeout, attempt, att, rResult>>
toolVars == <<mPc, mDir, mSteps, mResult, runVars>>
cfgVars == <<cPc, cx, ct, cm, cOut, cOut2, cFile, cInferred, fileVars, toolVars>>
hcVars == <<isTTY, hMethod, hPc, hResult, hLog, waits, srv, stdin>>
batchVars == <<mode, files, cli, bPc, results, batch, nBatches, nScans, probe>>
vars == <<cfgVars, hcVars, batchVars>>

(***************************************************************************)
(* steps/healthCheck.ts: the state of one bridge wait.                     *)
(***************************************************************************)
BRIDGE_PORTS == <<9223, 9224, 9225, 9226, 9227, 9228, 9229, 9230, 9231, 9232>>

\* The bounds of the health-check model.
MaxWaits == 2     \* bridge waits (or CDP probes) in one health check
MaxConns == 2     \* connections a wait's server accepts

WaitIds == 1..MaxWaits
BridgePortSet == {BRIDGE_PORTS[i] : i \in DOMAIN BRIDGE_PORTS}

\* A wait that has not started.  pc: "none", "listen" (at the port loop),
\* "racing" (the promise is pending), "settled" (the promise is resolved or
\* the function has returned a value, the caller has not resumed yet),
\* "returned".  The fields from teardowns on are history: they record what
\* has happened and are read by no action's guard.
NoWait ==
  [ pc |-> "none",
    bound |-> FALSE,
    listening |-> FALSE,   \* the server's listening handle is open
    conns |-> 0,           \* the server's open connections
    resolved |-> FALSE,    \* cleanup's flag
    outcome |-> "pending", \* the value the promise is settled with
    timer |-> FALSE,       \* the timeout is armed
    spinner |-> FALSE,     \* the spinner interval is running
    onData |-> FALSE,      \* onData is a 'data' listener of stdin
    teardowns |-> 0,       \* the times cleanup's body has run
    first |-> "none",      \* the first of the three events to fire
    late |-> {},           \* the events that fired after the first
    handshake |-> "none",  \* the first upgrade: 101 "sent" or "skipped"
    lateHandshake |-> FALSE, \* a later upgrade was answered with 101
    returns |-> 0,         \* the times the caller was resumed
    started |-> {},        \* what the wait has ever set up
    allBusy |-> FALSE,     \* the port loop found every port busy
    refused |-> FALSE,     \* a connection attempt was refused
    lateAccept |-> FALSE ] \* a connection was accepted after cleanup

\* stdin before any wait: cooked and paused, no 'exit' listener.
StdinIdle == [raw |-> FALSE, flowing |-> FALSE, exitListeners |-> 0]

\* The server's 'close' event: emitted (on the next tick) once the
\* listening handle is closed and no connection is left.  Its listener
\* removes onData from stdin.
emitCloseIfDrained(s) ==
  IF ~s.listening /\ s.conns = 0 THEN [s EXCEPT !.onData = FALSE] ELSE s

restoreStdin(tty, io) ==
  IF tty /\ io.raw
    THEN [io EXCEPT !.raw = FALSE, !.flowing = FALSE]
    ELSE io

\* A mutant: cleanup without its 'resolved' guard.
cleanup_NoGuard(tty, s, io) ==
  [ s |-> emitCloseIfDrained(
            [s EXCEPT !.resolved = TRUE, !.teardowns = @ + 1,
                      !.spinner = FALSE, !.timer = FALSE,
                      !.listening = FALSE]),
    io |-> [restoreStdin(tty, io) EXCEPT
              !.exitListeners = IF @ > 0 THEN @ - 1 ELSE 0] ]

\* A mutant: cleanup without server.close().
cleanup_NoClose(tty, s, io) ==
  IF s.resolved
    THEN [s |-> s, io |-> io]
    ELSE [ s |-> [s EXCEPT !.resolved = TRUE, !.teardowns = @ + 1,
                           !.spinner = FALSE, !.timer = FALSE],
           io |-> [restoreStdin(tty, io) EXCEPT
                     !.exitListeners = IF @ > 0 THEN @ - 1 ELSE 0] ]

\* cleanup() of the wait s, with stdin io: the wait and stdin afterwards.
cleanup(tty, s, io) ==
  IF s.resolved
    THEN [s |-> s, io |-> io]
    ELSE [ s |-> emitCloseIfDrained(
                   [s EXCEPT !.resolved = TRUE, !.teardowns = @ + 1,
                             !.spinner = FALSE, !.timer = FALSE,
                             !.listening = FALSE]),
           io |-> [restoreStdin(tty, io) EXCEPT
                     !.exitListeners = IF @ > 0 THEN @ - 1 ELSE 0] ]

\* resolve(v) of the wait's promise: a settled promise stays as it is.
resolve(s, v) ==
  IF s.outcome = "pending"
    THEN [s EXCEPT !.outcome = v, !.pc = "settled"]
    ELSE s

\* History: the event e fires on the wait s.
Fire(s, e) ==
  [s EXCEPT !.first = IF @ = "none" THEN e ELSE @,
            !.late = IF s.first = "none" THEN @ ELSE @ \cup {e}]

\* A mutant: a wait that found no free port reports a timeout.
UnboundResult_Timeout == "timeout"

\* What waitForBridgeWithCancel returns when no port could be bound.
UnboundResult == "connected"

\* The promise executor of a bound wait: spinner, timer, and on a TTY raw
\* mode, the 'exit' listener and the Escape handler.
StartRace(tty, s, io) ==
  [ s |-> [s EXCEPT !.pc = "racing", !.spinner = TRUE, !.timer = TRUE,
                    !.onData = tty,
                    !.started = @ \cup {"spinner", "timer"}
                                  \cup (IF tty THEN {"raw", "onData"} ELSE {})],
    io |-> IF tty
             THEN [raw |-> TRUE, flowing |-> TRUE,
                   exitListeners |-> io.exitListeners + 1]
             ELSE io ]

(***************************************************************************)
(* steps/clientDetect.ts, steps/configure.ts, steps/doctor.ts: the clients *)
(* and the state of a batch.                                               *)
(***************************************************************************)

\* The clients in the order getClients() lists them.  claude-code is
\* managed through the claude CLI, the others through a JSON config file.
ClientIds == <<"claude-code", "claude-desktop", "cursor", "windsurf">>
JsonClients == {"claude-desktop", "cursor", "windsurf"}

\* The bounds of the session model.
MaxBatches == 2        \* batches the operator starts in one doctor session
MaxRunningChecks == 1  \* times one target finds Claude Code running

\* The members of ClientIds that are in S, in the order of ClientIds: what
\* a checkbox prompt and Array.filter return.
InOrder(S) == SelectSeq(ClientIds, LAMBDA id : id \in S)

SeqRange(q) == {q[i] : i \in DOMAIN q}

\* A batch.  kind: "none", "update", "remove", "add", "wizard".  lines are
\* the per-target status lines printed, ops the mutating operations
\* attempted (config writes, 'claude mcp add', 'claude mcp remove'); both
\* are history, as are methodError and start.
NoBatch ==
  [ kind |-> "none",
    targets |-> <<>>,      \* the targets of the loop, in order
    idx |-> 1,             \* the loop's position in targets
    token |-> "",
    method |-> NpxMethod,
    checks |-> 0,          \* isClaudeRunning() answers of true, this target
    configured |-> <<>>,   \* configureClients' result list
    escaped |-> FALSE,     \* an error has propagated out of the batch
    lines |-> <<>>,
    ops |-> <<>>,
    events |-> <<>>,       \* operations, prompts and status lines, in order
    asked |-> {},          \* what the batch has asked the operator for
    methodError |-> "none",
    start |-> Undefined,   \* files and cli when the batch began
    scan |-> 0 ]           \* the scan that made the results it works on

\* What a target's iteration did, in the order it did it.
Event(id, ev) == [id |-> id, ev |-> ev]

\* A loop that leaves the status lines to be printed after it.
Report_Deferred(b, id, status) ==
  [b EXCEPT !.lines = Append(@, [id |-> id, status |-> status]),
            !.idx = @ + 1,
            !.checks = 0]

\* The per-target status line is printed and the loop moves on.
Report(b, id, status) ==
  [b EXCEPT !.lines = Append(@, [id |-> id, status |-> status]),
            !.events = Append(@, Event(id, "line")),
            !.idx = @ + 1,
            !.checks = 0]

\* A mutant: the per-target catch block rethrows.
catchTargetError_Rethrow(b, id) == [b EXCEPT !.escaped = TRUE]

\* The catch block around one target's mutation: the failure is printed
\* for that target and the loop continues.
catchTargetError(b, id) == Report(b, id, "failed")

\* A mutant: a failed method resolution is swallowed and the batch goes on
\* with the default method.
awaitInstallMethod_Swallow(b, r) ==
  IF IsThrow(r)
    THEN [b EXCEPT !.methodError = r.throw]
    ELSE [b EXCEPT !.method = r]

\* const method = await selectInstallMethod(): a rejection propagates out
\* of the caller, which has no handler around it.
awaitInstallMethod(b, r) ==
  IF IsThrow(r)
    THEN [b EXCEPT !.methodError = r.throw, !.escaped = TRUE]
    ELSE [b EXCEPT !.method = r]

\* Where the session is after a step of the loop.
AfterTarget(b) ==
  IF b.escaped THEN "thrown"
  ELSE IF b.idx > Len(b.targets) THEN "batchEnd"
  ELSE "loop"

Op(id, cmd, ok) == [id |-> id, cmd |-> cmd, ok |-> ok]

\* The operations a target's mutation attempted join the batch's history.
WithOps(b, ops) ==
  [b EXCEPT !.ops = @ \o ops,
            !.events = @ \o [i \in DOMAIN ops |-> Event(ops[i].id, ops[i].cmd)]]

\* configureJsonClient(client, token) on the file f; writeOk says whether
\* fs.writeFileSync succeeds.  The result: the file afterwards, the
\* mutating operations attempted, and whether it threw.
configureJsonClient(id, f, token, writeOk) ==
  LET merged == mergeServerConfig(readJsonConfig(f), token, NpxMethod)
  IN IF IsThrow(merged)
       THEN [file |-> f, ops |-> <<>>, threw |-> TRUE]
       ELSE IF writeOk
         THEN [file |-> writeJsonConfig(merged),
               ops |-> <<Op(id, "write", TRUE)>>, threw |-> FALSE]
         ELSE [file |-> f, ops |-> <<Op(id, "write", FALSE)>>, threw |-> TRUE]

\* A mutant: the removal empties the mcpServers collection.
removeJsonEntry_DropsOthers(id, f, writeOk) ==
  LET config == readJsonConfig(f)
  IN IF ~IsObj(config)
       THEN [file |-> f, ops |-> <<>>, threw |-> TRUE]
       ELSE IF writeOk
         THEN [file |-> writeJsonConfig(
                          Obj(Spread(config.obj, "mcpServers" :> EmptyObj))),
               ops |-> <<Op(id, "write", TRUE)>>, threw |-> FALSE]
         ELSE [file |-> f, ops |-> <<Op(id, "write", FALSE)>>, threw |-> TRUE]

\* The body of removeIntegrations' try for a file-backed client.
removeJsonEntry(id, f, writeOk) ==
  LET config == readJsonConfig(f)
      found == IF IsNullish(config) THEN Undefined
               ELSE GetProp(config, "mcpServers")
      mcpServers == IF IsNullish(found) THEN EmptyObj ELSE found
      deleted == IF IsObj(mcpServers)
                   THEN Obj([k \in DOMAIN mcpServers.obj \ {"figma-console"} |->
                               mcpServers.obj[k]])
                   ELSE mcpServers
      \* config.mcpServers = mcpServers throws on a primitive
      assigned == IF IsObj(config)
                    THEN Obj(Spread(config.obj, "mcpServers" :> deleted))
                    ELSE config
  IN IF IsNullish(config) \/ ~(IsObj(config) \/ IsArr(config))
       THEN [file |-> f, ops |-> <<>>, threw |-> TRUE]
       ELSE IF writeOk
         THEN [file |-> writeJsonConfig(assigned),
               ops |-> <<Op(id, "write", TRUE)>>, threw |-> FALSE]
         ELSE [file |-> f, ops |-> <<Op(id, "write", FALSE)>>, threw |-> TRUE]

\* The claude CLI's user-scope store.
CliEntry(token) == [token |-> token, method |-> NpxMethod]

\* isCommandAvailable('claude'): 'which claude' exits with zero.  whichOk
\* is false when the probe itself fails.
isCommandAvailable(c, whichOk) == whichOk /\ c.installed

\* No scan has probed the claude CLI yet.
NoProbe == [whichOk |-> FALSE, listOk |-> FALSE]

\* A check that reads the CLI's store whether or not the listing command
\* succeeded.
isFigmaConsoleConfigured_IgnoresExit(c, listOk) ==
  c.installed /\ c.entry # Absent

\* isFigmaConsoleConfigured(): 'claude mcp list' succeeded and its output
\* holds the text figma-console.
isFigmaConsoleConfigured(c, listOk) ==
  listOk /\ c.installed /\ c.entry # Absent

\* configureClaudeCode(token) from the point where isClaudeRunning() has
\* answered false: the remove of an entry found, then the add.  e says
\* which of the three commands succeed.
claudeRemoveAndAdd(c, token, e) ==
  LET found == isFigmaConsoleConfigured(c, e.listOk)
      rmOps == IF found THEN <<Op("claude-code", "mcp-remove", e.removeOk)>>
               ELSE <<>>
      c1 == IF found /\ e.removeOk THEN [c EXCEPT !.entry = Absent] ELSE c
  IN IF found /\ ~e.removeOk
       THEN [cli |-> c, ops |-> rmOps, threw |-> TRUE]
       ELSE IF e.addOk
         THEN [cli |-> [c1 EXCEPT !.entry = CliEntry(token)],
               ops |-> rmOps \o <<Op("claude-code", "mcp-add", TRUE)>>,
               threw |-> FALSE]
         ELSE [cli |-> c1,
               ops |-> rmOps \o <<Op("claude-code", "mcp-add", FALSE)>>,
               threw |-> TRUE]

(***************************************************************************)
(* The subsystems at rest.                                                 *)
(***************************************************************************)
\* The attempts runCommandWithSpinner may make are numbered from 0.
MaxRetries == 2
AttemptIds == 0..MaxRetries

\* An attempt that has not been started.
NoError == [throw |-> "", detail |-> ""]
NoOutcome == [kind |-> "none", stderr |-> ""]
NoAttempt ==
  [child |-> "none", timer |-> "none", spinner |-> FALSE,
   promise |-> "pending", error |-> NoError, first |-> NoOutcome, calls |-> 0]

\* runCommandWithSpinner is not being called.
RunIdle ==
  /\ rPc = "idle"
  /\ retries = 0
  /\ rTimeout = FALSE
  /\ attempt = 0
  /\ att = [k \in AttemptIds |-> NoAttempt]
  /\ rResult = Undefined

\* No external tool is being run.
ToolIdle ==
  /\ mPc = "idle"
  /\ mDir = [path |-> "", state |-> "absent"]
  /\ mSteps = <<>>
  /\ mResult = Undefined
  /\ RunIdle

ConfigIdle ==
  /\ ToolIdle
  /\ cPc = "idle"
  /\ cx = EmptyObj
  /\ ct = ""
  /\ cm = NpxMethod
  /\ cOut = Undefined
  /\ cOut2 = Undefined
  /\ cFile = FileMissing
  /\ cInferred = Undefined
  /\ fPc = "idle"
  /\ fFile = FileMissing
  /\ fScanned = Undefined
  /\ fRemoved = Undefined

HealthCheckIdle ==
  /\ isTTY = TRUE
  /\ hMethod = "bridge"
  /\ hPc = "idle"
  /\ hResult = "none"
  /\ hLog = <<>>
  /\ waits = 0
  /\ srv = [w \in WaitIds |-> NoWait]
  /\ stdin = StdinIdle

BatchIdle ==
  /\ mode = "idle"
  /\ files = [id \in JsonClients |-> FileMissing]
  /\ cli = [installed |-> FALSE, entry |-> Absent]
  /\ bPc = "idle"
  /\ results = <<>>
  /\ batch = NoBatch
  /\ nBatches = 0
  /\ nScans = 0
  /\ probe = NoProbe

(***************************************************************************)
(* The inputs of the config-store functions.                               *)
(***************************************************************************)
Tokens == {"figd_A", "figd_B"}
LocalPaths == {Str("/r/dist/local.js"), Str("/q/dist/local.js")}

\* An entry of another MCP server, foreign to this program.
OtherEntry == Obj([command |-> Str("uvx"), args |-> Arr(<<Str("srv")>>)])

\* What a config may hold under 'figma-console' before a merge.
OldFigmaEntries ==
  { ServerEntry("figd_A", NpxMethod),
    ServerEntry("figd_B", LocalMethod(Str("/r/dist/local.js"))),
    Obj([command |-> Str("node")]),
    Str("x") }

\* The object with the given optional members.
ObjOf(members) ==
  Obj([k \in {j \in DOMAIN members : members[j] # Absent} |-> members[k]])

\* What a config may hold under mcpServers: any JSON value.
McpServersValues ==
  { Null, JFalse, JTrue, Num(0), Num(5), Str(""), Str("ab"),
    Arr(<<>>), Arr(<<Str("x")>>) }
  \cup { ObjOf(("other" :> o) @@ ("figma-console" :> f)) :
           o \in {Absent, OtherEntry}, f \in {Absent} \cup OldFigmaEntries }

ExistingConfigs ==
  { ObjOf(("theme" :> th) @@ ("mcpServers" :> ms)) :
      th \in {Absent, Str("dark")}, ms \in {Absent} \cup McpServersValues }

\* Every InstallMethod value: the path of a local method is any string.
InstallMethods ==
  {NpxMethod} \cup {LocalMethod(p) : p \in LocalPaths \cup {Str("")}}

InitConfig ==
  /\ ToolIdle
  /\ cPc = "input"
  /\ cx \in ExistingConfigs
  /\ ct \in Tokens
  /\ cm \in InstallMethods
  /\ cOut = Undefined
  /\ cOut2 = Undefined
  /\ cFile = FileMissing
  /\ cInferred = Undefined
  /\ fPc = "idle"
  /\ fFile = FileMissing
  /\ fScanned = Undefined
  /\ fRemoved = Undefined
  /\ HealthCheckIdle
  /\ BatchIdle

ApplyMerge ==
  /\ cPc = "input"
  /\ cOut' = mergeServerConfig(cx, ct, cm)
  /\ cPc' = "merged"
  /\ UNCHANGED <<cx, ct, cm, cOut2, cFile, cInferred, fileVars, toolVars, hcVars, batchVars>>

ApplyMergeAgain ==
  /\ cPc = "merged"
  /\ cOut2' = mergeServerConfig(cOut, ct, cm)
  /\ cPc' = "merged2"
  /\ UNCHANGED <<cx, ct, cm, cOut, cFile, cInferred, fileVars, toolVars, hcVars, batchVars>>

ApplyWrite ==
  /\ cPc = "merged2"
  /\ cFile' = writeJsonConfig(cOut)
  /\ cPc' = "written"
  /\ UNCHANGED <<cx, ct, cm, cOut, cOut2, cInferred, fileVars, toolVars, hcVars, batchVars>>

ApplyDetect ==
  /\ cPc = "written"
  /\ cInferred' = detectInstallMethodFromConfig(cFile)
  /\ cPc' = "detected"
  /\ UNCHANGED <<cx, ct, cm, cOut, cOut2, cFile, fileVars, toolVars, hcVars, batchVars>>

NextConfig == ApplyMerge \/ ApplyMergeAgain \/ ApplyWrite \/ ApplyDetect

SpecConfig == InitConfig /\ [][NextConfig]_vars

(***************************************************************************)
(* Claims on the config store.                                             *)
(***************************************************************************)

\* The entries of the mcpServers collection of a config.
ServersOf(config) == OwnEntries(GetProp(config, "mcpServers"))

\* C1: mergeServerConfig(x, t, m) equals x on every top-level key other
\* than mcpServers and on every entry of mcpServers other than
\* 'figma-console'; it adds and drops no other key.
C1_MergePreservesOthers ==
  cPc # "input" =>
    /\ IsObj(cOut)
    /\ DOMAIN cOut.obj \ {"mcpServers"} = DOMAIN cx.obj \ {"mcpServers"}
    /\ \A k \in DOMAIN cx.obj \ {"mcpServers"} : cOut.obj[k] = cx.obj[k]
    /\ DOMAIN ServersOf(cOut) \ {"figma-console"}
         = DOMAIN ServersOf(cx) \ {"figma-console"}
    /\ \A k \in DOMAIN ServersOf(cx) \ {"figma-console"} :
         ServersOf(cOut)[k] = ServersOf(cx)[k]

\* A merge has run on a config that holds a foreign top-level key, a
\* foreign server and an old 'figma-console' entry.
C1_Witness ==
  /\ cPc = "merged"
  /\ "theme" \in DOMAIN cx.obj
  /\ {"other", "figma-console"} \subseteq DOMAIN ServersOf(cx)
  /\ ServersOf(cx)["figma-console"] # ServersOf(cOut)["figma-console"]

\* C2: mergeServerConfig is idempotent:
\* merge(merge(x, t, m), t, m) = merge(x, t, m).
C2_MergeIdempotent ==
  cPc \in {"merged2", "written", "detected"} => cOut2 = cOut

\* The second merge has run on a result that differs from the input.
C2_Witness ==
  /\ cPc = "merged2"
  /\ cOut # cx
  /\ "other" \in DOMAIN ServersOf(cx)

InitHealth ==
  /\ ConfigIdle
  /\ BatchIdle
  /\ isTTY \in BOOLEAN
  /\ hMethod \in {"bridge", "cdp"}
  /\ hPc = IF hMethod = "cdp" THEN "confirm" ELSE "loop"
  /\ hResult = "none"
  /\ hLog = <<>>
  /\ waits = 0
  /\ srv = [w \in WaitIds |-> NoWait]
  /\ stdin = StdinIdle

\* No resolved promise is waiting for its continuation to run: promise
\* continuations run before the next timer, socket or keyboard event.
NoContinuation == \A w \in WaitIds : srv[w].pc # "settled"

\* A prompt of @inquirer/prompts throws ExitPromptError when the operator
\* aborts it.
PromptAborted ==
  /\ hPc \in {"confirm", "action"}
  /\ NoContinuation
  /\ hPc' = "done"
  /\ hResult' = "thrown"
  /\ UNCHANGED <<batchVars, cfgVars, isTTY, hMethod, hLog, waits, srv, stdin>>

\* The confirm prompt of the CDP channel.
ConfirmReady(ready) ==
  /\ hPc = "confirm"
  /\ IF ready
       THEN /\ hPc' = "loop"
            /\ UNCHANGED <<hResult, hLog>>
       ELSE /\ hPc' = "done"
            /\ hResult' = "notReady"
            /\ hLog' = Append(hLog, "not-ready")
  /\ UNCHANGED <<batchVars, cfgVars, isTTY, hMethod, waits, srv, stdin>>

\* What fetch('http://localhost:9222') may give: a network error, the
\* 3 s abort, or a response with a status.
CdpReplies == {[err |-> "refused"], [err |-> "aborted"],
               [status |-> 200], [status |-> 404]}

\* A probe that takes any end of the fetch for a reachable endpoint.
checkCdp_Always(reply) == TRUE

checkCdp(reply) ==
  /\ "status" \in DOMAIN reply
  /\ \/ (reply.status >= 200 /\ reply.status <= 299)
     \/ reply.status > 0

\* One turn of the loop on the CDP channel.  History: whether the fetch
\* of this turn got a response, kept in the turn's outcome.
CdpProbe(reply) ==
  /\ hPc = "loop"
  /\ hMethod = "cdp"
  /\ waits < MaxWaits
  /\ waits' = waits + 1
  /\ srv' = [srv EXCEPT ![waits + 1].outcome =
                          IF "status" \in DOMAIN reply THEN "response"
                          ELSE "no-response"]
  /\ IF checkCdp(reply)
       THEN /\ hLog' = hLog \o <<"cdp-ok", "dashboard">>
            /\ hPc' = "done"
            /\ hResult' = "dashboard"
       ELSE /\ hLog' = Append(hLog, "cdp-fail")
            /\ hPc' = "action"
            /\ UNCHANGED hResult
  /\ UNCHANGED <<batchVars, cfgVars, isTTY, hMethod, stdin>>

\* One turn of the loop on the bridge channel, up to createServer().
StartWait ==
  /\ hPc = "loop"
  /\ hMethod = "bridge"
  /\ waits < MaxWaits
  /\ waits' = waits + 1
  /\ hLog' = Append(hLog, "start-plugin")
  /\ srv' = [srv EXCEPT ![waits + 1] = [NoWait EXCEPT !.pc = "listen"]]
  /\ hPc' = "wait"
  /\ UNCHANGED <<batchVars, cfgVars, isTTY, hMethod, hResult, stdin>>

\* The port loop: tryListen on each candidate port in turn, up to the
\* first that is free.  busy is the set of ports that another process holds
\* when the loop tries them.  The index of the port bound, 0 if none.
ListenLoop(busy) ==
  LET free == {i \in DOMAIN BRIDGE_PORTS : BRIDGE_PORTS[i] \notin busy}
  IN IF free = {} THEN 0 ELSE CHOOSE i \in free : \A j \in free : i <= j

\* The port loop, over any set of ports that other processes hold, and what
\* follows it without a suspension: the promise executor when a port was
\* bound, the return when none was.
TryListen(w) ==
  /\ srv[w].pc = "listen"
  /\ \E busy \in SUBSET BridgePortSet :
       LET s == srv[w]
       IN IF ListenLoop(busy) # 0
            THEN LET r == StartRace(isTTY,
                             [s EXCEPT !.bound = TRUE, !.listening = TRUE,
                                       !.started = {"listen"}],
                             stdin)
                 IN /\ srv' = [srv EXCEPT ![w] = r.s]
                    /\ stdin' = r.io
            ELSE /\ srv' = [srv EXCEPT ![w] =
                              [s EXCEPT !.allBusy = TRUE,
                                        !.outcome = UnboundResult,
                                        !.pc = "settled"]]
                 /\ UNCHANGED stdin
  /\ UNCHANGED <<batchVars, cfgVars, isTTY, hMethod, hPc, hResult, hLog, waits>>

\* A client tries to connect to the port of the wait's server.
ConnectAttempt(w) ==
  /\ NoContinuation
  /\ srv[w].bound
  /\ \/ /\ srv[w].listening
        /\ srv[w].conns < MaxConns
        /\ srv' = [srv EXCEPT ![w].conns = @ + 1,
                              ![w].lateAccept = @ \/ srv[w].resolved]
     \/ /\ ~srv[w].listening
        /\ srv' = [srv EXCEPT ![w].refused = TRUE]
  /\ UNCHANGED <<batchVars, cfgVars, isTTY, hMethod, hPc, hResult, hLog, waits, stdin>>

\* A connection that sent no upgrade request is closed by its client.
ConnectionEnds(w) ==
  /\ NoContinuation
  /\ srv[w].conns > 0
  /\ srv' = [srv EXCEPT ![w] = emitCloseIfDrained([@ EXCEPT !.conns = @ - 1])]
  /\ UNCHANGED <<batchVars, cfgVars, isTTY, hMethod, hPc, hResult, hLog, waits, stdin>>

\* The 'upgrade' listener, for a request with or without a
\* sec-websocket-key header.  The listener stays on the server for good.
UpgradeRequest(w, hasKey) ==
  /\ NoContinuation
  /\ srv[w].conns > 0
  /\ LET s1 == Fire(srv[w], "upgrade")
         s2 == IF srv[w].first = "none"
                 THEN [s1 EXCEPT !.handshake =
                                   IF hasKey THEN "sent" ELSE "skipped"]
                 ELSE [s1 EXCEPT !.lateHandshake = @ \/ hasKey]
         s3 == emitCloseIfDrained([s2 EXCEPT !.conns = @ - 1])
         c == cleanup(isTTY, s3, stdin)
     IN /\ srv' = [srv EXCEPT ![w] = resolve(c.s, "connected")]
        /\ stdin' = c.io
  /\ UNCHANGED <<batchVars, cfgVars, isTTY, hMethod, hPc, hResult, hLog, waits>>

\* The timeout's callback.
TimerFires(w) ==
  /\ NoContinuation
  /\ srv[w].timer
  /\ LET c == cleanup(isTTY, Fire([srv[w] EXCEPT !.timer = FALSE], "timer"), stdin)
     IN /\ srv' = [srv EXCEPT ![w] = resolve(c.s, "timeout")]
        /\ stdin' = c.io
  /\ UNCHANGED <<batchVars, cfgVars, isTTY, hMethod, hPc, hResult, hLog, waits>>

\* onData of the wait w, called with '\x1b'.
OnEscape(st, w) ==
  IF st.srv[w].onData
    THEN LET c == cleanup(isTTY,
                          Fire([st.srv[w] EXCEPT !.onData = FALSE], "escape"),
                          st.io)
         IN [srv |-> [st.srv EXCEPT ![w] = resolve(c.s, "cancelled")],
             io |-> c.io]
    ELSE st

\* stdin's 'data' event: the listeners run in the order they were added.
RECURSIVE EmitEscape(_, _)
EmitEscape(st, w) ==
  IF w > MaxWaits THEN st ELSE EmitEscape(OnEscape(st, w), w + 1)

\* stdin delivers data while it flows: during a wait on a TTY, and while a
\* prompt reads a key.
StdinDelivers ==
  /\ NoContinuation
  /\ stdin.flowing \/ hPc \in {"confirm", "action"}
  /\ \E w \in WaitIds : srv[w].onData

EscapeKey ==
  /\ StdinDelivers
  /\ LET st == EmitEscape([srv |-> srv, io |-> stdin], 1)
     IN /\ srv' = st.srv
        /\ stdin' = st.io
  /\ UNCHANGED <<batchVars, cfgVars, isTTY, hMethod, hPc, hResult, hLog, waits>>

\* Any other chunk of data: onData ignores it.
OtherKey ==
  /\ StdinDelivers
  /\ UNCHANGED vars

\* A health check that treats every wait that did not connect as a
\* timeout.
afterWait_Collapsed(result) ==
  IF result = "connected"
    THEN [lines |-> <<"connected", "dashboard">>, pc |-> "done",
          ret |-> "dashboard"]
    ELSE [lines |-> <<"not-detected">>, pc |-> "action", ret |-> "none"]

\* runHealthCheck's branches on the result of waitForBridgeWithCancel():
\* the lines printed, where the function continues, and what it ends with.
afterWait(result) ==
  CASE result = "connected" ->
         [lines |-> <<"connected", "dashboard">>, pc |-> "done",
          ret |-> "dashboard"]
    [] result = "cancelled" ->
         [lines |-> <<"cancelled">>, pc |-> "done", ret |-> "cancelled"]
    [] OTHER ->
         [lines |-> <<"not-detected">>, pc |-> "action", ret |-> "none"]

\* The caller of waitForBridgeWithCancel resumes with the outcome.
WaitReturns(w) ==
  /\ srv[w].pc = "settled"
  /\ hPc = "wait"
  /\ srv' = [srv EXCEPT ![w].pc = "returned", ![w].returns = @ + 1]
  /\ LET after == afterWait(srv[w].outcome)
     IN /\ hLog' = hLog \o after.lines
        /\ hPc' = after.pc
        /\ hResult' = IF after.pc = "done" THEN after.ret ELSE hResult
  /\ UNCHANGED <<batchVars, cfgVars, isTTY, hMethod, waits, stdin>>

\* The retry-or-exit prompt.
ChooseAction(action) ==
  /\ hPc = "action"
  /\ NoContinuation
  /\ IF action = "exit"
       THEN /\ hLog' = Append(hLog, "incomplete")
            /\ hPc' = "done"
            /\ hResult' = "exit"
       ELSE /\ waits < MaxWaits
            /\ hLog' = Append(hLog, "retry")
            /\ hPc' = "loop"
            /\ UNCHANGED hResult
  /\ UNCHANGED <<batchVars, cfgVars, isTTY, hMethod, waits, srv, stdin>>

NextHealth ==
  \/ PromptAborted
  \/ \E ready \in BOOLEAN : ConfirmReady(ready)
  \/ \E reply \in CdpReplies : CdpProbe(reply)
  \/ StartWait
  \/ \E w \in WaitIds : TryListen(w)
  \/ \E w \in WaitIds : ConnectAttempt(w)
  \/ \E w \in WaitIds : ConnectionEnds(w)
  \/ \E w \in WaitIds, hasKey \in BOOLEAN : UpgradeRequest(w, hasKey)
  \/ \E w \in WaitIds : TimerFires(w)
  \/ EscapeKey
  \/ OtherKey
  \/ \E w \in WaitIds : WaitReturns(w)
  \/ \E action \in {"retry", "exit"} : ChooseAction(action)

SpecHealth == InitHealth /\ [][NextHealth]_vars

(***************************************************************************)
(* Claims on the bridge wait.                                              *)
(***************************************************************************)
OutcomeOf(event) ==
  CASE event = "upgrade" -> "connected"
    [] event = "timer" -> "timeout"
    [] event = "escape" -> "cancelled"
    [] OTHER -> "pending"

\* C4: in a wait with a bound listener, whatever the order in which the
\* upgrade request, the timer and the Escape key fire, the promise is
\* settled with the outcome of the event that fired first, the caller is
\* resumed once, and the teardown (timer cleared, listener closed, stdin
\* restored) has run exactly once.
C4_FirstEventWinsOnce ==
  \A w \in WaitIds :
    srv[w].bound =>
      /\ srv[w].outcome = OutcomeOf(srv[w].first)
      /\ srv[w].teardowns = (IF srv[w].first = "none" THEN 0 ELSE 1)
      /\ srv[w].returns = (IF srv[w].pc = "returned" THEN 1 ELSE 0)
      /\ srv[w].first # "none" =>
           /\ ~srv[w].timer
           /\ ~srv[w].listening
           /\ srv[w].pc \in {"settled", "returned"}
      /\ (srv[w].first # "none" /\ w = waits) => ~stdin.raw

\* A second event has fired on a wait that the first event settled.
C4_Witness ==
  \E w \in WaitIds :
    /\ srv[w].late # {}
    /\ srv[w].first = "timer"
    /\ srv[w].pc = "returned"

\* C5: when the Escape key is the first event of a wait, the wait yields
\* cancelled, once; its listener is closed from then on, and a connection
\* attempt made afterwards is refused: it settles nothing and reaches no
\* handler.
C5_EscapeFirstCancels ==
  \A w \in WaitIds :
    srv[w].first = "escape" =>
      /\ srv[w].outcome = "cancelled"
      /\ srv[w].returns <= 1
      /\ srv[w].pc = "returned" => hResult \in {"cancelled"}
      /\ ~srv[w].listening
      /\ ~srv[w].lateAccept
      /\ srv[w].teardowns = 1

\* After a cancellation a connection attempt has been made, and refused.
C5_Witness ==
  \E w \in WaitIds :
    /\ srv[w].first = "escape"
    /\ srv[w].pc = "returned"
    /\ srv[w].refused

\* C6: when all ten candidate ports are already bound by something else,
\* the wait returns connected without ever having had a listening socket,
\* a timer or a keystroke handler.
C6_AllPortsBusyConnected ==
  \A w \in WaitIds :
    srv[w].allBusy =>
      /\ ~srv[w].bound
      /\ srv[w].pc \in {"settled", "returned"}
      /\ srv[w].outcome = "connected"
      /\ srv[w].started = {}
      /\ ~srv[w].listening /\ ~srv[w].timer /\ ~srv[w].onData
      /\ srv[w].pc = "returned" => hResult = "dashboard"

\* A wait that found all ten ports busy has returned.
C6_Witness ==
  \E w \in WaitIds :
    /\ srv[w].allBusy
    /\ srv[w].pc = "returned"

\* C7: a wait's listener is closed when its outcome is returned, so that
\* over the retries of a health check at most one listener of the verifier
\* is open at a time, and none once runHealthCheck has returned.
C7_ListenerReleased ==
  /\ Cardinality({w \in WaitIds : srv[w].listening}) <= 1
  /\ \A w \in WaitIds :
       srv[w].pc \in {"settled", "returned"} => ~srv[w].listening
  /\ hPc = "done" => \A w \in WaitIds : ~srv[w].listening

\* The health check has ended after two waits that both bound a listener.
C7_Witness ==
  /\ hPc = "done"
  /\ waits >= 2
  /\ \A w \in 1..2 : srv[w].bound /\ srv[w].pc = "returned"

\* C8: whenever waitForBridgeWithCancel has returned, stdin is not in raw
\* mode and no Escape data handler remains registered.
C8_StdinRestored ==
  \A w \in WaitIds :
    (w = waits /\ srv[w].pc = "returned") =>
      /\ ~stdin.raw
      /\ \A v \in WaitIds : ~srv[v].onData

(***************************************************************************)
(* steps/installMethod.ts: selectInstallMethod.                            *)
(***************************************************************************)
CloneDirs == {"/r", "/q"}

\* path.join(os.homedir(), DEFAULT_CLONE_DIR_NAME)
defaultRepoPath == "/r"

\* path.join(targetDir, 'dist', 'local.js')
localJsPath(dir) ==
  CASE dir = "/r" -> Str("/r/dist/local.js")
    [] dir = "/q" -> Str("/q/dist/local.js")

Throw(msg) == [throw |-> msg]

\* What the machine answers while selectInstallMethod runs: git on PATH,
\* the default path holding a clone, the directory typed at the prompt and
\* what is there, and the success of git clone, npm install, npm run build
\* and of the build in producing dist/local.js.  (A failing git pull is
\* ignored by the code and has no parameter.)
AllMethodEnvs ==
  [ git : BOOLEAN, defaultIsClone : BOOLEAN, inputDir : CloneDirs,
    dirState : {"clone", "other", "absent"},
    cloneOk : BOOLEAN, installOk : BOOLEAN, buildOk : BOOLEAN,
    entryBuilt : BOOLEAN ]

\* The answers explored: at most one thing is wrong, and nothing is typed
\* at a prompt that is not shown.
MethodEnvs ==
  { e \in AllMethodEnvs :
      /\ Cardinality({f \in {"git", "cloneOk", "installOk", "buildOk",
                              "entryBuilt"} : ~e[f]}) <= 1
      /\ e.defaultIsClone => e.inputDir = defaultRepoPath /\ e.dirState = "clone" }

\* cloneOrUpdateRepo(targetDir): "ok" or the error thrown.
cloneOrUpdateRepo(state, e) ==
  IF state = "clone" THEN "ok"
  ELSE IF state = "other" THEN "Directory already exists"
  ELSE IF e.cloneOk THEN "ok"
  ELSE "Command failed"

\* selectInstallMethod() with the operator's choice: the method returned,
\* or the error thrown.
selectInstallMethod(choice, e) ==
  IF choice = "npx" THEN NpxMethod
  ELSE IF ~e.git THEN Throw("git is not installed")
  ELSE LET targetDir == IF e.defaultIsClone THEN defaultRepoPath
                        ELSE e.inputDir
           state == IF e.defaultIsClone THEN "clone" ELSE e.dirState
           cloned == cloneOrUpdateRepo(state, e)
       IN IF cloned # "ok" THEN Throw(cloned)
          ELSE IF ~e.installOk \/ ~e.buildOk THEN Throw("Command failed")
          ELSE IF ~e.entryBuilt THEN Throw("dist/local.js not found")
          ELSE LocalMethod(localJsPath(targetDir))

(***************************************************************************)
(* steps/doctor.ts: scanClients, and getClients of steps/clientDetect.ts.  *)
(***************************************************************************)

\* A scan that does not read the entry's env.
scanJsonClient_NoToken(id, f) ==
  IF f = FileMissing
    THEN [id |-> id, detected |-> FALSE, configured |-> FALSE, token |-> Null]
    ELSE LET config == readJsonConfig(f)
             figmaConsole == GetOpt(GetProp(config, "mcpServers"), "figma-console")
         IN IF IsNullish(config) THEN ThrowTypeError
            ELSE [id |-> id, detected |-> TRUE,
                  configured |-> Truthy(figmaConsole), token |-> Null]

\* The ScanResult of a file-backed client, or the TypeError that reading
\* a property of a null config raises.
scanJsonClient(id, f) ==
  IF f = FileMissing
    THEN [id |-> id, detected |-> FALSE, configured |-> FALSE, token |-> Null]
    ELSE LET config == readJsonConfig(f)
             mcpServers == GetProp(config, "mcpServers")
             figmaConsole == GetOpt(mcpServers, "figma-console")
             env == GetProp(figmaConsole, "env")
             token == GetOpt(env, "FIGMA_ACCESS_TOKEN")
         IN IF IsNullish(config) THEN ThrowTypeError
            ELSE IF ~Truthy(figmaConsole)
              THEN [id |-> id, detected |-> TRUE, configured |-> FALSE,
                    token |-> Null]
              ELSE [id |-> id, detected |-> TRUE, configured |-> TRUE,
                    token |-> IF IsNullish(token) THEN Null ELSE token]

\* A scan that reports the token of the claude CLI's entry.
scanClients_CliToken(fs, c, whichOk, listOk) ==
  LET one(id) ==
        IF id = "claude-code"
          THEN [id |-> id, detected |-> isCommandAvailable(c, whichOk),
                configured |-> /\ isCommandAvailable(c, whichOk)
                               /\ isFigmaConsoleConfigured(c, listOk),
                token |-> IF c.entry = Absent THEN Null ELSE Str(c.entry.token)]
          ELSE scanJsonClient(id, fs[id])
  IN IF \E id \in JsonClients : IsThrow(scanJsonClient(id, fs[id]))
       THEN [threw |-> TRUE, results |-> <<>>]
       ELSE [threw |-> FALSE,
             results |-> [i \in DOMAIN ClientIds |-> one(ClientIds[i])]]

scanClients(fs, c, whichOk, listOk) ==
  LET one(id) ==
        IF id = "claude-code"
          THEN [id |-> id, detected |-> isCommandAvailable(c, whichOk),
                configured |-> /\ isCommandAvailable(c, whichOk)
                               /\ isFigmaConsoleConfigured(c, listOk),
                token |-> Null]
          ELSE scanJsonClient(id, fs[id])
  IN IF \E id \in JsonClients : IsThrow(scanJsonClient(id, fs[id]))
       THEN [threw |-> TRUE, results |-> <<>>]
       ELSE [threw |-> FALSE,
             results |-> [i \in DOMAIN ClientIds |-> one(ClientIds[i])]]

ConfiguredIds(rs) == {rs[i].id : i \in {j \in DOMAIN rs : rs[j].configured}}
\* An Add that offers every detected client.
UnconfiguredIds_Detected(rs) ==
  {rs[i].id : i \in {j \in DOMAIN rs : rs[j].detected}}

UnconfiguredIds(rs) ==
  {rs[i].id : i \in {j \in DOMAIN rs : rs[j].detected /\ ~rs[j].configured}}
DetectedIds(rs) == {rs[i].id : i \in {j \in DOMAIN rs : rs[j].detected}}

\* results.find((r) => r.token)?.token
existingToken(rs) ==
  LET hits == {i \in DOMAIN rs : Truthy(rs[i].token)}
  IN IF hits = {} THEN Undefined
     ELSE rs[CHOOSE i \in hits : \A j \in hits : i <= j].token

(***************************************************************************)
(* The doctor session (runDoctor) and the wizard's steps from the token    *)
(* prompt to the end of configureClients.                                  *)
(***************************************************************************)

\* The config files a client may have when the session starts.
CfgPlain == FileText(Obj("theme" :> Str("dark")))
CfgOther == FileText(Obj("mcpServers" :> Obj("other" :> OtherEntry)))
CfgNpxA ==
  FileText(Obj(("theme" :> Str("dark")) @@
               ("mcpServers" :>
                  Obj(("other" :> OtherEntry) @@
                      ("figma-console" :> ServerEntry("figd_A", NpxMethod))))))
CfgLocalB ==
  FileText(Obj("mcpServers" :>
                 Obj("figma-console" :>
                       ServerEntry("figd_B", LocalMethod(Str("/r/dist/local.js"))))))
CfgNoEnv ==
  FileText(Obj("mcpServers" :>
                 Obj("figma-console" :> Obj([command |-> Str("node")]))))
CfgNull == FileText(Null)

ClientFiles(a, b, c) ==
  ("claude-desktop" :> a) @@ ("cursor" :> b) @@ ("windsurf" :> c)

InitialFiles ==
  { ClientFiles(CfgNpxA, CfgOther, CfgLocalB),
    ClientFiles(CfgNpxA, CfgNpxA, CfgLocalB),
    ClientFiles(CfgOther, CfgPlain, CfgOther),
    ClientFiles(CfgNoEnv, CfgOther, FileMissing),
    ClientFiles(FileMalformed, CfgNpxA, FileMissing),
    ClientFiles(FileMissing, FileMissing, FileMissing),
    ClientFiles(CfgNull, CfgOther, CfgLocalB) }

InitialClis ==
  { [installed |-> FALSE, entry |-> Absent],
    [installed |-> TRUE, entry |-> Absent],
    [installed |-> TRUE,
     entry |-> [token |-> "figd_B",
                method |-> LocalMethod(Str("/r/dist/local.js"))]] }

\* The token the operator types at promptForToken, which accepts only a
\* token that starts with figd_.
PromptTokens == {"figd_C"}

InitBatch ==
  /\ ConfigIdle
  /\ HealthCheckIdle
  /\ mode \in {"doctor", "wizard"}
  /\ files \in InitialFiles
  /\ cli \in InitialClis
  /\ bPc = IF mode = "doctor" THEN "scan" ELSE "token"
  /\ results = <<>>
  /\ batch = IF mode = "doctor" THEN NoBatch
             ELSE [NoBatch EXCEPT !.kind = "wizard",
                                  !.start = [files |-> files, cli |-> cli]]
  /\ nBatches = 0
  /\ nScans = 0
  /\ probe = NoProbe

\* const results = scanClients() at the top of runDoctor's loop; what the
\* batch before it did is history from here on.
DoScan(whichOk, listOk) ==
  /\ whichOk => cli.installed
  /\ listOk => whichOk
  /\ LET scan == scanClients(files, cli, whichOk, listOk)
     IN IF scan.threw
          THEN /\ bPc' = "thrown"
               /\ UNCHANGED results
          ELSE /\ bPc' = "menu"
               /\ results' = scan.results
  /\ nScans' = nScans + 1
  /\ probe' = [whichOk |-> whichOk, listOk |-> listOk]
  /\ batch' = NoBatch
  /\ UNCHANGED <<cfgVars, hcVars, mode, files, cli, nBatches>>

\* The first scan of runDoctor.
ScanClients(whichOk, listOk) ==
  /\ bPc = "scan"
  /\ DoScan(whichOk, listOk)

\* The menu: update and remove are offered when a client is configured,
\* add when a detected client is not.
DoctorMenu(action) ==
  /\ bPc = "menu"
  /\ \/ /\ action = "done"
        /\ bPc' = "done"
        /\ UNCHANGED <<batch, nBatches>>
     \/ /\ action \in {"update", "remove"}
        /\ ConfiguredIds(results) # {}
        /\ nBatches < MaxBatches
        /\ bPc' = IF action = "update" THEN "token" ELSE "select"
        /\ batch' = [NoBatch EXCEPT !.kind = action,
                                    !.start = [files |-> files, cli |-> cli],
                                    !.scan = nScans]
        /\ nBatches' = nBatches + 1
     \/ /\ action = "add"
        /\ UnconfiguredIds(results) # {}
        /\ nBatches < MaxBatches
        /\ bPc' = "select"
        /\ batch' = [NoBatch EXCEPT !.kind = "add",
                                    !.start = [files |-> files, cli |-> cli],
                                    !.scan = nScans]
        /\ nBatches' = nBatches + 1
  /\ UNCHANGED <<cfgVars, hcVars, mode, files, cli, results, nScans, probe>>

\* An Update that goes over every detected client.
updateTargets_Detected(rs) == InOrder(DetectedIds(rs))

\* updateToken's targets: results.filter((r) => r.configured).
updateTargets(rs) == InOrder(ConfiguredIds(rs))

\* promptForToken() returns: in updateToken before the loop, in
\* addIntegrations before the method is resolved, in the wizard before the
\* clients are detected.
PromptToken(t) ==
  /\ bPc = "token"
  /\ batch' = IF batch.kind = "update"
                THEN [batch EXCEPT !.token = t,
                                   !.asked = @ \cup {"token"},
                                   !.targets = updateTargets(results)]
                ELSE [batch EXCEPT !.token = t,
                                   !.asked = @ \cup {"token"}]
  /\ bPc' = CASE batch.kind = "update" -> "loop"
              [] batch.kind = "add" -> "method"
              [] batch.kind = "wizard" -> "select"
  /\ UNCHANGED <<cfgVars, hcVars, mode, files, cli, results, nBatches, nScans, probe>>

\* The checkbox of removeIntegrations or addIntegrations returns sel.
SelectTargets(sel) ==
  /\ bPc = "select"
  /\ batch.kind \in {"remove", "add"}
  /\ sel \subseteq IF batch.kind = "remove" THEN ConfiguredIds(results)
                   ELSE UnconfiguredIds(results)
  /\ batch' = [batch EXCEPT !.targets = InOrder(sel)]
  /\ bPc' = IF sel = {} THEN "batchEnd"
            ELSE IF batch.kind = "remove" THEN "loop"
            ELSE IF existingToken(results) # Undefined THEN "reuse"
            ELSE "token"
  /\ UNCHANGED <<cfgVars, hcVars, mode, files, cli, results, nBatches, nScans, probe>>

\* detectAndSelectClients() of the wizard: getClients(), then the checkbox
\* over the detected clients.
DetectAndSelect(sel) ==
  /\ bPc = "select"
  /\ batch.kind = "wizard"
  /\ LET scan == scanClients(files, cli, cli.installed, cli.installed)
     IN IF scan.threw
          THEN /\ sel = {}
               /\ bPc' = "thrown"
               /\ UNCHANGED <<results, batch>>
          ELSE /\ sel \subseteq DetectedIds(scan.results)
               /\ results' = scan.results
               /\ batch' = [batch EXCEPT !.targets = InOrder(sel)]
               /\ bPc' = IF sel = {} THEN "done" ELSE "method"
  /\ UNCHANGED <<cfgVars, hcVars, mode, files, cli, nBatches, nScans, probe>>

\* addIntegrations' offer to reuse the first token the scan found.
ReuseToken(choice) ==
  /\ bPc = "reuse"
  /\ \/ /\ choice = "reuse"
        /\ batch' = [batch EXCEPT !.token = existingToken(results).str,
                                  !.asked = @ \cup {"reuse"}]
        /\ bPc' = "method"
     \/ /\ choice = "new"
        /\ bPc' = "token"
        /\ batch' = [batch EXCEPT !.asked = @ \cup {"reuse"}]
  /\ UNCHANGED <<cfgVars, hcVars, mode, files, cli, results, nBatches, nScans, probe>>

\* const method = await selectInstallMethod() of addIntegrations and of
\* the wizard.
SelectMethod(choice, e) ==
  /\ bPc = "method"
  /\ batch' = awaitInstallMethod([batch EXCEPT !.asked = @ \cup {"method"}],
                                 selectInstallMethod(choice, e))
  /\ bPc' = IF batch'.escaped THEN "thrown" ELSE "loop"
  /\ UNCHANGED <<cfgVars, hcVars, mode, files, cli, results, nBatches, nScans, probe>>

\* The operator aborts a prompt that no per-target try encloses: the
\* ExitPromptError ends the session as cancelled.
PromptCancelled ==
  /\ bPc \in {"menu", "token", "select", "reuse", "method"}
  /\ bPc' = "cancelled"
  /\ UNCHANGED <<cfgVars, hcVars, mode, files, cli, results, batch, nBatches, nScans, probe>>

CurrentTarget == batch.targets[batch.idx]

\* A target's mutation returned: its success line, and in configureClients
\* its place in the result list.
Succeeded(b, id) ==
  Report(IF b.kind = "wizard"
           THEN [b EXCEPT !.configured = Append(@, id)]
           ELSE b,
         id, "ok")

\* One iteration of the loop on a file-backed target.
MutateJsonTarget(writeOk) ==
  /\ bPc = "loop"
  /\ CurrentTarget \in JsonClients
  /\ LET id == CurrentTarget
         unread == [file |-> files[id], ops |-> <<>>, threw |-> TRUE]
         r == CASE batch.kind = "remove" ->
                     removeJsonEntry(id, files[id], writeOk)
                [] batch.kind = "update" ->
                     IF IsThrow(detectInstallMethodFromConfig(files[id]))
                       THEN unread
                       ELSE configureJsonClient(id, files[id], batch.token, writeOk)
                [] OTHER ->
                     configureJsonClient(id, files[id], batch.token, writeOk)
         b == WithOps(batch, r.ops)
     IN /\ files' = [files EXCEPT ![id] = r.file]
        /\ batch' = IF r.threw THEN catchTargetError(b, id)
                    ELSE Succeeded(b, id)
        /\ bPc' = AfterTarget(batch')
  /\ UNCHANGED <<cfgVars, hcVars, mode, cli, results, nBatches, nScans, probe>>

ClaudeEnvs ==
  [running : BOOLEAN, listOk : BOOLEAN, removeOk : BOOLEAN, addOk : BOOLEAN]

\* configureClaudeCode(token) from the top of its while loop: the
\* isClaudeRunning() check, and when it answers false the remove and add.
ConfigureClaudeCode(e) ==
  /\ bPc = "loop"
  /\ CurrentTarget = "claude-code"
  /\ batch.kind # "remove"
  /\ IF e.running
       THEN /\ batch.checks < MaxRunningChecks
            /\ batch' = [batch EXCEPT
                          !.checks = @ + 1,
                          !.events = Append(@, Event("claude-code", "running-prompt"))]
            /\ bPc' = "running"
            /\ UNCHANGED cli
       ELSE LET r == claudeRemoveAndAdd(cli, batch.token, e)
                b == WithOps([batch EXCEPT
                                !.events = Append(@, Event("claude-code",
                                                           "not-running"))],
                             r.ops)
            IN /\ cli' = r.cli
               /\ batch' = IF r.threw THEN catchTargetError(b, "claude-code")
                           ELSE Succeeded(b, "claude-code")
               /\ bPc' = AfterTarget(batch')
  /\ UNCHANGED <<cfgVars, hcVars, mode, files, results, nBatches, nScans, probe>>

\* The retry-or-skip prompt of configureClaudeCode.  On skip it returns
\* false: configureClients prints 'skipped', updateToken and
\* addIntegrations ignore the value and print their success line.  An
\* aborted prompt throws inside the target's try.
RunningPrompt(choice) ==
  /\ bPc = "running"
  /\ \/ /\ choice = "retry"
        /\ bPc' = "loop"
        /\ UNCHANGED batch
     \/ /\ choice = "skip"
        /\ batch' = Report([batch EXCEPT
                             !.events = Append(@, Event("claude-code", "skip"))],
                           "claude-code",
                           IF batch.kind = "wizard" THEN "skipped" ELSE "ok")
        /\ bPc' = AfterTarget(batch')
     \/ /\ choice = "abort"
        /\ batch' = catchTargetError(batch, "claude-code")
        /\ bPc' = AfterTarget(batch')
  /\ UNCHANGED <<cfgVars, hcVars, mode, files, cli, results, nBatches, nScans, probe>>

\* removeIntegrations on claude-code: 'claude mcp remove'.
RemoveClaude(ok) ==
  /\ bPc = "loop"
  /\ CurrentTarget = "claude-code"
  /\ batch.kind = "remove"
  /\ LET b == WithOps(batch, <<Op("claude-code", "mcp-remove", ok)>>)
     IN /\ cli' = IF ok THEN [cli EXCEPT !.entry = Absent] ELSE cli
        /\ batch' = IF ok THEN Succeeded(b, "claude-code")
                    ELSE catchTargetError(b, "claude-code")
        /\ bPc' = AfterTarget(batch')
  /\ UNCHANGED <<cfgVars, hcVars, mode, files, results, nBatches, nScans, probe>>

\* A mutant: runDoctor goes back to its menu with the results it has.
AfterBatch_Menu(m) == IF m = "doctor" THEN "menu" ELSE "done"

\* Where the caller of a batch function goes on: runDoctor to the top of
\* its loop, the wizard to the connection step.
AfterBatch(m) == IF m = "doctor" THEN "scan" ELSE "done"

\* The batch function returns.  runDoctor's loop goes round to its scan in
\* the same turn; the wizard goes on with what configureClients returned.
BatchReturns(whichOk, listOk) ==
  /\ bPc = "batchEnd"
  /\ IF AfterBatch(mode) = "scan"
       THEN DoScan(whichOk, listOk)
       ELSE /\ ~whichOk /\ ~listOk
            /\ bPc' = AfterBatch(mode)
            /\ UNCHANGED <<cfgVars, hcVars, mode, files, cli, results, batch,
                           nBatches, nScans, probe>>

NextBatch ==
  \/ \E whichOk, listOk \in BOOLEAN : ScanClients(whichOk, listOk)
  \/ \E action \in {"update", "remove", "add", "done"} : DoctorMenu(action)
  \/ \E t \in PromptTokens : PromptToken(t)
  \/ \E sel \in SUBSET SeqRange(ClientIds) : SelectTargets(sel)
  \/ \E sel \in SUBSET SeqRange(ClientIds) : DetectAndSelect(sel)
  \/ \E choice \in {"reuse", "new"} : ReuseToken(choice)
  \/ \E choice \in {"npx", "local"}, e \in MethodEnvs : SelectMethod(choice, e)
  \/ PromptCancelled
  \/ \E writeOk \in BOOLEAN : MutateJsonTarget(writeOk)
  \/ \E e \in ClaudeEnvs : ConfigureClaudeCode(e)
  \/ \E choice \in {"retry", "skip", "abort"} : RunningPrompt(choice)
  \/ \E ok \in BOOLEAN : RemoveClaude(ok)
  \/ \E whichOk, listOk \in BOOLEAN : BatchReturns(whichOk, listOk)

SpecBatch == InitBatch /\ [][NextBatch]_vars

(***************************************************************************)
(* Claims on the batches.                                                  *)
(***************************************************************************)

\* The mutating operations the batch attempted on the target id.
OpsOn(id) == SelectSeq(batch.ops, LAMBDA op : op.id = id)

\* C9: in an Add, Update or Remove batch and in configureClients, a
\* failure while mutating one target is reported for that target only and
\* does not propagate out of the batch: no error escapes the batch unless
\* the install method could not be resolved, every target the loop has
\* passed has exactly one status line, in target order, a target one of
\* whose operations failed is reported failed, and a target is reported
\* failed only when its own last operation failed or it attempted none.
C9_BatchFailureIsolation ==
  batch.kind # "none" =>
    /\ batch.escaped => batch.methodError # "none"
    /\ Len(batch.lines) = batch.idx - 1
    /\ batch.idx <= Len(batch.targets) + 1
    /\ bPc = "batchEnd" => batch.idx = Len(batch.targets) + 1
    /\ \A i \in DOMAIN batch.lines :
         LET id == batch.targets[i]
             mine == OpsOn(id)
         IN /\ batch.lines[i].id = id
            /\ (\E k \in DOMAIN mine : ~mine[k].ok)
                 => batch.lines[i].status = "failed"
            /\ batch.lines[i].status = "failed"
                 => mine = <<>> \/ ~mine[Len(mine)].ok

\* An Add batch of three targets has ended: the second target's config
\* write failed, the first and the third were configured.
C9_Witness ==
  /\ bPc = "batchEnd"
  /\ batch.kind = "add"
  /\ Len(batch.targets) = 3
  /\ [i \in 1..3 |-> batch.lines[i].status] = <<"ok", "failed", "ok">>
  /\ batch.ops = << Op(batch.targets[1], "write", TRUE),
                    Op(batch.targets[2], "write", FALSE),
                    Op(batch.targets[3], "write", TRUE) >>
  /\ files[batch.targets[2]] = batch.start.files[batch.targets[2]]
  /\ files[batch.targets[3]] # batch.start.files[batch.targets[3]]

\* C10: when selectInstallMethod fails in an Add batch or in the wizard,
\* the batch is aborted before any target is mutated: the error leaves the
\* batch, no config file has been written and no 'claude mcp add' or
\* 'claude mcp remove' has been invoked in it.
C10_MethodFailureAborts ==
  batch.methodError # "none" =>
    /\ bPc = "thrown"
    /\ batch.kind \in {"add", "wizard"}
    /\ batch.ops = <<>>
    /\ batch.lines = <<>>
    /\ files = batch.start.files
    /\ cli = batch.start.cli

\* An Add batch with two targets selected was aborted by a failed clone.
C10_Witness ==
  /\ batch.kind = "add"
  /\ batch.methodError = "Command failed"
  /\ Len(batch.targets) >= 2
  /\ bPc = "thrown"

\* The 'figma-console' entry of a client's config file.
FigmaEntryOf(f) ==
  GetOpt(GetOpt(readJsonConfig(f), "mcpServers"), "figma-console")

\* C11: Update does not change a target's launch mechanism: a configured
\* target that an Update batch reports as updated has the same command and
\* args (the same install method) as when the batch began.
C11_UpdateKeepsLaunch ==
  batch.kind = "update" =>
    \A i \in DOMAIN batch.lines :
      batch.lines[i].status = "ok" =>
        LET id == batch.targets[i]
        IN IF id = "claude-code"
             THEN cli.entry # Absent /\ batch.start.cli.entry # Absent
                    => cli.entry.method = batch.start.cli.entry.method
             ELSE /\ GetOpt(FigmaEntryOf(files[id]), "command")
                       = GetOpt(FigmaEntryOf(batch.start.files[id]), "command")
                  /\ GetOpt(FigmaEntryOf(files[id]), "args")
                       = GetOpt(FigmaEntryOf(batch.start.files[id]), "args")


(***************************************************************************)
(* The scan and the removal of doctor.ts applied to one config file of     *)
(* any content.                                                            *)
(***************************************************************************)

\* What a config file may hold: no file, text that is not JSON, or any
\* JSON value.
FileInputs ==
  {FileMissing, FileMalformed}
  \cup {FileText(v) : v \in ExistingConfigs}
  \cup {FileText(v) : v \in {Null, JTrue, Num(5), Str("ab"), Arr(<<>>),
                              Arr(<<Str("x")>>)}}

InitFile ==
  /\ ToolIdle
  /\ cPc = "idle"
  /\ cx = EmptyObj
  /\ ct = ""
  /\ cm = NpxMethod
  /\ cOut = Undefined
  /\ cOut2 = Undefined
  /\ cFile = FileMissing
  /\ cInferred = Undefined
  /\ fPc = "input"
  /\ fFile \in FileInputs
  /\ fScanned = Undefined
  /\ fRemoved = Undefined
  /\ HealthCheckIdle
  /\ BatchIdle

\* scanClients reaches the client of the file.
ApplyScan ==
  /\ fPc = "input"
  /\ fScanned' = scanJsonClient("cursor", fFile)
  /\ fPc' = "scanned"
  /\ UNCHANGED <<cPc, cx, ct, cm, cOut, cOut2, cFile, cInferred, fFile,
                 fRemoved, toolVars, hcVars, batchVars>>

\* removeIntegrations reaches the client of the file.
ApplyRemove(writeOk) ==
  /\ fPc = "scanned"
  /\ fRemoved' = removeJsonEntry("cursor", fFile, writeOk)
  /\ fPc' = "removed"
  /\ UNCHANGED <<cPc, cx, ct, cm, cOut, cOut2, cFile, cInferred, fFile,
                 fScanned, toolVars, hcVars, batchVars>>

NextFile == ApplyScan \/ \E writeOk \in BOOLEAN : ApplyRemove(writeOk)

SpecFile == InitFile /\ [][NextFile]_vars

\* C12: removing the integration from a file-backed target whose config is
\* a mapping without a 'figma-console' entry (with or without an
\* mcpServers collection) succeeds, unless the write itself fails, and
\* leaves the config as it was.
C12_RemoveAbsentIsNoOp ==
  ( /\ fPc = "removed"
    /\ IsObj(readJsonConfig(fFile))
    /\ "figma-console" \notin DOMAIN ServersOf(readJsonConfig(fFile))
    /\ Op("cursor", "write", FALSE) \notin SeqRange(fRemoved.ops) )
  => /\ ~fRemoved.threw
     /\ readJsonConfig(fRemoved.file) = readJsonConfig(fFile)


\* C13: Remove on a file-backed target deletes only the 'figma-console'
\* entry of mcpServers, every other entry and every other top-level key of
\* its config staying as it was; Remove on the CLI-managed target invokes
\* only 'claude mcp remove'; and a Remove batch writes no file other than
\* the configs of the file-backed targets it has reached.
C13_RemoveDeletesOnlyEntry ==
  batch.kind = "remove" =>
    /\ \A k \in DOMAIN batch.ops :
         \/ batch.ops[k].cmd = "write" /\ batch.ops[k].id \in JsonClients
         \/ batch.ops[k].cmd = "mcp-remove" /\ batch.ops[k].id = "claude-code"
    /\ \A id \in JsonClients :
         OpsOn(id) = <<>> => files[id] = batch.start.files[id]
    /\ \A i \in DOMAIN batch.lines :
         LET id == batch.targets[i]
             before == readJsonConfig(batch.start.files[id])
             after == readJsonConfig(files[id])
         IN IF id = "claude-code"
              THEN Len(OpsOn(id)) = 1
              ELSE IF batch.lines[i].status = "ok"
                THEN /\ IsObj(after)
                     /\ DOMAIN after.obj \ {"mcpServers"}
                          = DOMAIN before.obj \ {"mcpServers"}
                     /\ \A key \in DOMAIN before.obj \ {"mcpServers"} :
                          after.obj[key] = before.obj[key]
                     /\ DOMAIN ServersOf(after)
                          = DOMAIN ServersOf(before) \ {"figma-console"}
                     /\ \A key \in DOMAIN ServersOf(after) :
                          ServersOf(after)[key] = ServersOf(before)[key]
                ELSE files[id] = batch.start.files[id]

\* A Remove batch on Claude Code and on a file-backed client whose config
\* holds another server and another top-level key has ended, both removed.
C13_Witness ==
  /\ bPc = "batchEnd"
  /\ batch.kind = "remove"
  /\ batch.targets = <<"claude-code", "claude-desktop">>
  /\ \A i \in 1..2 : batch.lines[i].status = "ok"
  /\ cli.entry = Absent
  /\ DOMAIN ServersOf(readJsonConfig(batch.start.files["claude-desktop"]))
       = {"other", "figma-console"}
  /\ DOMAIN ServersOf(readJsonConfig(files["claude-desktop"])) = {"other"}
  /\ "theme" \in DOMAIN readJsonConfig(files["claude-desktop"]).obj


\* C14: in a doctor session every batch works on the results of a scan made
\* after the previous batch finished: the k-th batch uses the k-th scan,
\* the menu is offered only on the results of a scan newer than every
\* batch, and a scan is made only once the batches started have finished.
C14_ScanBetweenBatches ==
  mode = "doctor" =>
    /\ batch.kind # "none" => batch.scan = nBatches
    /\ bPc = "menu" => nScans = nBatches + 1
    /\ nScans \in {nBatches, nBatches + 1}
    /\ bPc \in {"token", "select", "reuse", "method", "loop", "running",
                 "batchEnd"} => nScans = nBatches

\* A second batch is running on the second scan, whose results differ from
\* the first scan's because of what the first batch did.
C14_Witness ==
  /\ mode = "doctor"
  /\ nBatches = 2
  /\ batch.scan = 2
  /\ bPc = "loop"
  /\ batch.kind = "update"
  /\ "cursor" \in SeqRange(batch.targets)
  /\ batch.start.files["cursor"] \notin
       {InitialFiles_f["cursor"] : InitialFiles_f \in InitialFiles}


\* C15: scanning a file-backed target never raises: for a missing file and
\* for every content without a 'figma-console' entry (malformed JSON, JSON
\* that is not an object, an object without mcpServers or without the
\* entry) readJsonConfig yields a mapping and the scan result is
\* configured = false with token = null.
C15_ScanNeverRaises ==
  ( /\ fPc # "input"
    /\ FigmaEntryOf(fFile) = Undefined )
  => /\ IsObj(readJsonConfig(fFile))
     /\ ~IsThrow(fScanned)
     /\ fScanned.configured = FALSE
     /\ fScanned.token = Null


(***************************************************************************)
(* C16: the probes of the claude CLI.                                      *)
(***************************************************************************)

\* The scan result of Claude Code.
ClaudeResult == results[CHOOSE i \in DOMAIN results : results[i].id = "claude-code"]

\* C16: a failing 'which claude' or 'claude mcp list' never raises out of
\* the scan: the scan raises only for a file-backed client's config, a
\* failed probe gives detected = false, a failed listing gives
\* configured = false, and configured is true only when the listing
\* succeeded and shows figma-console.
C16_CliProbeNeverRaises ==
  /\ ( /\ mode = "doctor"
       /\ bPc = "thrown"
       /\ nScans = nBatches + 1 )
     => \E id \in JsonClients : IsThrow(scanJsonClient(id, files[id]))
  /\ ( /\ mode = "doctor"
       /\ bPc = "menu" )
     => /\ ~probe.whichOk => ~ClaudeResult.detected
        /\ ~probe.listOk => ~ClaudeResult.configured
        /\ ClaudeResult.configured
             <=> (probe.whichOk /\ probe.listOk /\ cli.entry # Absent)
        /\ ClaudeResult.detected <=> probe.whichOk

\* The claude binary is installed with figma-console registered, and the
\* listing of the last scan failed.
C16_Witness ==
  /\ mode = "doctor"
  /\ bPc = "menu"
  /\ cli.installed
  /\ cli.entry # Absent
  /\ probe.whichOk
  /\ ~probe.listOk
  /\ ~ClaudeResult.configured


(***************************************************************************)
(* C17: timeout and cancelled in runHealthCheck.                           *)
(***************************************************************************)

\* The lines printed from the announcement of bridge wait w onwards.
LinesOfWait(w) ==
  LET starts == {i \in DOMAIN hLog : hLog[i] = "start-plugin"}
      at == CHOOSE i \in starts :
              Cardinality({j \in starts : j <= i}) = w
  IN SubSeq(hLog, at, Len(hLog))

\* C17: a bridge wait that returned cancelled ends runHealthCheck with the
\* cancellation message as its last line: no retry prompt, no dashboard,
\* no later wait.  A wait that returned timeout prints the not-detected
\* line and leads to the retry-or-exit prompt, and a later wait exists
\* only after the operator's retry.
C17_TimeoutAndCancelledDistinct ==
  \A w \in WaitIds :
    (hMethod = "bridge" /\ srv[w].pc = "returned") =>
      LET lines == LinesOfWait(w)
      IN /\ srv[w].outcome = "cancelled" =>
              /\ lines = <<"start-plugin", "cancelled">>
              /\ hPc = "done"
              /\ hResult = "cancelled"
              /\ waits = w
         /\ srv[w].outcome = "timeout" =>
              /\ SubSeq(lines, 1, 2) = <<"start-plugin", "not-detected">>
              /\ Len(lines) = 2 =>
                   /\ waits = w
                   /\ \/ hPc = "action"
                      \/ hPc = "done" /\ hResult = "thrown"
              /\ Len(lines) > 2 =>
                   \/ /\ lines = <<"start-plugin", "not-detected", "incomplete">>
                      /\ hPc = "done"
                      /\ hResult = "exit"
                      /\ waits = w
                   \/ lines[3] = "retry"
              /\ waits > w => (Len(lines) > 2 /\ lines[3] = "retry")
              /\ hResult # "cancelled" \/ waits > w

\* A first wait timed out, the operator chose retry, and the second wait
\* was cancelled.
C17_Witness ==
  /\ hMethod = "bridge"
  /\ waits = 2
  /\ srv[1].pc = "returned"
  /\ srv[1].outcome = "timeout"
  /\ srv[2].pc = "returned"
  /\ srv[2].outcome = "cancelled"
  /\ hResult = "cancelled"


(***************************************************************************)
(* C18: the targets of a batch are processed one after another.            *)
(***************************************************************************)

\* The place of a target in the batch's order, 0 for a client that is not
\* a target.
PlaceOf(id) ==
  LET at == {k \in DOMAIN batch.targets : batch.targets[k] = id}
  IN IF at = {} THEN 0 ELSE CHOOSE k \in at : TRUE

\* C18: within a batch the operations, prompts and status lines of the
\* targets happen in batch order without interleaving: the events form one
\* block per target, the blocks follow the batch order from the first
\* target to the one the loop has reached, a block ends with its target's
\* status line and holds no other status line, and the next block begins
\* only after that line.
C18_TargetsSequential ==
  batch.kind # "none" =>
    LET ev == batch.events
        n == Len(ev)
        place == [i \in DOMAIN ev |-> PlaceOf(ev[i].id)]
    IN /\ n = 0 => batch.idx = 1
       /\ n > 0 =>
            /\ place[1] = 1
            /\ place[n] <= Len(batch.targets)
            /\ batch.idx = IF ev[n].ev = "line" THEN place[n] + 1 ELSE place[n]
       /\ \A i \in 1..(n - 1) :
            IF ev[i].ev = "line"
              THEN place[i + 1] = place[i] + 1
              ELSE place[i + 1] = place[i]

\* An Add batch of three targets has ended; the first target, Claude Code,
\* went through the running prompt and two commands before its line, and
\* the two file-backed targets followed.
C18_Witness ==
  /\ bPc = "batchEnd"
  /\ batch.kind = "add"
  /\ Len(batch.targets) = 3
  /\ batch.targets[1] = "claude-code"
  /\ Len(batch.events) >= 7
  /\ batch.events[1] = Event("claude-code", "running-prompt")
  /\ batch.events[Len(batch.events)] = Event(batch.targets[3], "line")


(***************************************************************************)
(* C19: what an Update batch touches.                                      *)
(***************************************************************************)

\* The token a client's integration holds now: FIGMA_ACCESS_TOKEN of the
\* figma-console entry in its file, or of the claude CLI's entry.
TokenOf(id) ==
  IF id = "claude-code"
    THEN IF cli.entry = Absent THEN Undefined ELSE Str(cli.entry.token)
    ELSE GetOpt(GetOpt(FigmaEntryOf(files[id]), "env"), "FIGMA_ACCESS_TOKEN")

\* The mutation of a target ran and every operation of it succeeded.
MutationSucceeded(id) ==
  LET mine == OpsOn(id)
  IN /\ mine # <<>>
     /\ \A k \in DOMAIN mine : mine[k].ok
     /\ mine[Len(mine)].cmd \in {"write", "mcp-add"}

\* C19: an Update batch works on exactly the clients its scan reports as
\* configured; a target whose mutation succeeded holds the new token, and
\* a client the scan reports as not configured or not detected has the
\* file, or the CLI entry, it had when the batch began.
C19_UpdateTouchesConfigured ==
  batch.kind = "update" =>
    /\ bPc \in {"loop", "running", "batchEnd"}
         => SeqRange(batch.targets) = ConfiguredIds(results)
    /\ SeqRange(batch.targets) \subseteq ConfiguredIds(results)
    /\ \A k \in DOMAIN batch.ops : batch.ops[k].id \in ConfiguredIds(results)
    /\ \A id \in JsonClients \ ConfiguredIds(results) :
         files[id] = batch.start.files[id]
    /\ "claude-code" \notin ConfiguredIds(results) => cli = batch.start.cli
    /\ \A i \in DOMAIN batch.lines :
         LET id == batch.targets[i]
         IN /\ MutationSucceeded(id) => TokenOf(id) = Str(batch.token)
            /\ (id \in JsonClients /\ batch.lines[i].status = "ok")
                 => MutationSucceeded(id)

\* An Update batch has ended on a session where Claude Desktop and Windsurf
\* were configured with other tokens and Cursor was detected without the
\* integration: both targets hold the new token, Cursor's file is as it
\* was.
C19_Witness ==
  /\ bPc = "batchEnd"
  /\ batch.kind = "update"
  /\ batch.targets = <<"claude-desktop", "windsurf">>
  /\ batch.start.files = ClientFiles(CfgNpxA, CfgOther, CfgLocalB)
  /\ MutationSucceeded("claude-desktop")
  /\ MutationSucceeded("windsurf")
  /\ TokenOf("claude-desktop") = Str("figd_C")
  /\ TokenOf("windsurf") = Str("figd_C")
  /\ files["cursor"] = CfgOther


(***************************************************************************)
(* C20: what an Add batch touches.                                         *)
(***************************************************************************)

\* What the batch's scan reports of a client.
ResultOf(id) == results[CHOOSE i \in DOMAIN results : results[i].id = id]

\* C20: every target of an Add batch is a client its scan reports as
\* detected and not configured, every operation of the batch is on one of
\* its targets, a client that is not a target keeps the file, or the CLI
\* entry, it had when the batch began, and a batch whose selection is empty
\* attempts no operation and asks for no token and no install method.
C20_AddTouchesSelected ==
  batch.kind = "add" =>
    /\ \A id \in SeqRange(batch.targets) :
         ResultOf(id).detected /\ ~ResultOf(id).configured
    /\ \A k \in DOMAIN batch.ops : batch.ops[k].id \in SeqRange(batch.targets)
    /\ \A id \in JsonClients \ SeqRange(batch.targets) :
         files[id] = batch.start.files[id]
    /\ "claude-code" \notin SeqRange(batch.targets) => cli = batch.start.cli
    /\ batch.targets = <<>> =>
         /\ bPc \in {"select", "batchEnd", "cancelled"}
         /\ batch.asked = {}
         /\ batch.token = ""
         /\ batch.ops = <<>>
         /\ batch.events = <<>>
    /\ bPc \in {"loop", "running"} => {"method"} \subseteq batch.asked

\* An Add batch has ended on a session where Cursor and Claude Code were
\* detected without the integration and the operator selected Cursor only:
\* Cursor holds the token, Claude Code and the configured clients are as
\* they were.
C20_Witness ==
  /\ bPc = "batchEnd"
  /\ batch.kind = "add"
  /\ batch.targets = <<"cursor">>
  /\ batch.start.files = ClientFiles(CfgNpxA, CfgOther, CfgLocalB)
  /\ batch.start.cli = [installed |-> TRUE, entry |-> Absent]
  /\ ResultOf("claude-code").detected
  /\ ~ResultOf("claude-code").configured
  /\ MutationSucceeded("cursor")
  /\ TokenOf("cursor") = Str(batch.token)
  /\ cli = batch.start.cli
  /\ files["claude-desktop"] = CfgNpxA
  /\ files["windsurf"] = CfgLocalB


(***************************************************************************)
(* C21: the token and the install method of an Add batch.                  *)
(***************************************************************************)

\* C21: every target that an Add batch has added holds the entry made of
\* the batch's one token and of the install method the batch resolved: the
\* file-backed target the server entry of that token and method, Claude
\* Code the CLI entry of that token and method.
C21_AddUsesOneTokenAndMethod ==
  batch.kind = "add" =>
    \A i \in DOMAIN batch.lines :
      LET id == batch.targets[i]
      IN MutationSucceeded(id) =>
           IF id = "claude-code"
             THEN cli.entry = [token |-> batch.token, method |-> batch.method]
             ELSE FigmaEntryOf(files[id])
                    = ServerEntry(batch.token, batch.method)


(***************************************************************************)
(* C22: the handlers of a settled wait.                                    *)
(***************************************************************************)

\* C22: an event that fires on a wait after the first event settled it
\* does nothing: the teardown has still run once, the outcome is still the
\* first event's, and no 101 handshake response has been written for an
\* upgrade request that came after the first event.
C22_LateHandlersAreNoOps ==
  \A w \in WaitIds :
    srv[w].late # {} =>
      /\ srv[w].teardowns = 1
      /\ srv[w].outcome = OutcomeOf(srv[w].first)
      /\ ~srv[w].lateHandshake


(***************************************************************************)
(* steps/installMethod.ts: selectInstallMethod, step by step, with         *)
(* runCommandWithSpinner (retries = 0) running each command.               *)
(***************************************************************************)

\* What the command of a step may print on its stderr.
StderrTexts == {"", "fatal: no network"}

\* How runSingleCommand's promise may end: exit code 0, a non-zero exit
\* code with the stderr text collected, a spawn error, the timeout.
CommandOutcomes ==
  {[kind |-> "ok", stderr |-> ""], [kind |-> "spawn", stderr |-> ""],
   [kind |-> "timeout", stderr |-> ""]}
  \cup {[kind |-> "exit", stderr |-> t] : t \in StderrTexts}

\* The Error runSingleCommand rejects with.
commandError(o) ==
  CASE o.kind = "exit" ->
         [throw |-> "Command failed with code", detail |-> o.stderr]
    [] o.kind = "spawn" -> [throw |-> "spawn error", detail |-> ""]
    [] o.kind = "timeout" -> [throw |-> "Command timed out after", detail |-> ""]

Step(name, o) == [step |-> name, outcome |-> o]

InitMethod ==
  /\ cPc = "idle"
  /\ cx = EmptyObj
  /\ ct = ""
  /\ cm = NpxMethod
  /\ cOut = Undefined
  /\ cOut2 = Undefined
  /\ cFile = FileMissing
  /\ cInferred = Undefined
  /\ fPc = "idle"
  /\ fFile = FileMissing
  /\ fScanned = Undefined
  /\ fRemoved = Undefined
  /\ mPc = "select"
  /\ mDir = [path |-> "", state |-> "absent"]
  /\ mSteps = <<>>
  /\ mResult = Undefined
  /\ RunIdle
  /\ HealthCheckIdle
  /\ BatchIdle

\* The select prompt.
ChooseMethod(choice) ==
  /\ mPc = "select"
  /\ IF choice = "npx"
       THEN mPc' = "done" /\ mResult' = NpxMethod
       ELSE mPc' = "git" /\ UNCHANGED mResult
  /\ UNCHANGED <<cPc, cx, ct, cm, cOut, cOut2, cFile, cInferred, fileVars,
                 mDir, mSteps, runVars, hcVars,
                 batchVars>>

\* isGitInstalled().
CheckGit(ok) ==
  /\ mPc = "git"
  /\ IF ok
       THEN mPc' = "dir" /\ UNCHANGED mResult
       ELSE /\ mPc' = "done"
            /\ mResult' = [throw |-> "git is not installed", detail |-> ""]
  /\ UNCHANGED <<cPc, cx, ct, cm, cOut, cOut2, cFile, cInferred, fileVars,
                 mDir, mSteps, runVars, hcVars,
                 batchVars>>

\* targetDir: the default path when it holds a clone, else the path typed
\* at the input prompt, where there may be a clone, something else, or
\* nothing.
ChooseDir(defaultIsClone, inputDir, dirState) ==
  /\ mPc = "dir"
  /\ defaultIsClone => (inputDir = defaultRepoPath /\ dirState = "clone")
  /\ (~defaultIsClone /\ inputDir = defaultRepoPath) => dirState # "clone"
  /\ mDir' = [path |-> inputDir, state |-> dirState]
  /\ mPc' = "fetch"
  /\ UNCHANGED <<cPc, cx, ct, cm, cOut, cOut2, cFile, cInferred, fileVars,
                 mSteps, mResult, runVars, hcVars,
                 batchVars>>

\* cloneOrUpdateRepo(targetDir): git pull in a clone, whose failure is
\* caught; an error for another directory; git clone otherwise.
FetchRepo(o) ==
  /\ mPc = "fetch"
  /\ CASE mDir.state = "clone" ->
            /\ mSteps' = Append(mSteps, Step("pull", o))
            /\ mPc' = "install"
            /\ UNCHANGED mResult
       [] mDir.state = "other" ->
            /\ o.kind = "ok"
            /\ mPc' = "done"
            /\ mResult' = [throw |-> "Directory already exists", detail |-> ""]
            /\ UNCHANGED mSteps
       [] OTHER ->
            /\ mSteps' = Append(mSteps, Step("clone", o))
            /\ IF o.kind = "ok"
                 THEN mPc' = "install" /\ UNCHANGED mResult
                 ELSE mPc' = "done" /\ mResult' = commandError(o)
  /\ UNCHANGED <<cPc, cx, ct, cm, cOut, cOut2, cFile, cInferred, fileVars,
                 mDir, runVars, hcVars,
                 batchVars>>

\* runInstallAndBuild(dir): npm install, then npm run build.
InstallOrBuild(o) ==
  /\ mPc \in {"install", "build"}
  /\ mSteps' = Append(mSteps, Step(mPc, o))
  /\ IF o.kind = "ok"
       THEN /\ mPc' = IF mPc = "install" THEN "build" ELSE "check"
            /\ UNCHANGED mResult
       ELSE mPc' = "done" /\ mResult' = commandError(o)
  /\ UNCHANGED <<cPc, cx, ct, cm, cOut, cOut2, cFile, cInferred, fileVars,
                 mDir, runVars, hcVars,
                 batchVars>>

\* existsSync(localJsPath).
CheckEntry(exists) ==
  /\ mPc = "check"
  /\ mSteps' = Append(mSteps,
                      Step("check", [kind |-> IF exists THEN "ok" ELSE "missing",
                                     stderr |-> ""]))
  /\ mPc' = "done"
  /\ mResult' = IF exists THEN LocalMethod(localJsPath(mDir.path))
                ELSE [throw |-> "dist/local.js not found", detail |-> ""]
  /\ UNCHANGED <<cPc, cx, ct, cm, cOut, cOut2, cFile, cInferred, fileVars,
                 mDir, runVars, hcVars,
                 batchVars>>

NextMethod ==
  \/ \E choice \in {"npx", "local"} : ChooseMethod(choice)
  \/ \E ok \in BOOLEAN : CheckGit(ok)
  \/ \E d \in BOOLEAN, dir \in CloneDirs, st \in {"clone", "other", "absent"} :
       ChooseDir(d, dir, st)
  \/ \E o \in CommandOutcomes : FetchRepo(o)
  \/ \E o \in CommandOutcomes : InstallOrBuild(o)
  \/ \E exists \in BOOLEAN : CheckEntry(exists)

SpecMethod == InitMethod /\ [][NextMethod]_vars

\* The step an error message names, "none" when it names no step.
StepNamedBy(err) ==
  CASE err.throw = "git is not installed" -> "git"
    [] err.throw = "Directory already exists" -> "clone"
    [] err.throw = "dist/local.js not found" -> "check"
    [] OTHER -> "none"

\* C23: selectInstallMethod returns a local method only after the fetch
\* (clone or pull), npm install, npm run build and the check of
\* dist/local.js have run in that order and all succeeded; when a step
\* fails the error names that step and carries the stderr text collected,
\* and the failed step is the last one run.
C23_LocalOnlyAfterAllSteps ==
  mPc = "done" =>
    /\ (~IsThrow(mResult) /\ mResult.type = "local") =>
         /\ Len(mSteps) = 4
         /\ mSteps[1].step \in {"clone", "pull"}
         /\ [i \in 2..4 |-> mSteps[i].step]
              = [i \in 2..4 |-> <<"", "install", "build", "check">>[i]]
         /\ \A i \in 1..4 : mSteps[i].outcome.kind = "ok"
    /\ (IsThrow(mResult) /\ mSteps # <<>>) =>
         LET last == mSteps[Len(mSteps)]
         IN /\ last.outcome.kind # "ok"
            /\ \A i \in 1..(Len(mSteps) - 1) : mSteps[i].outcome.kind = "ok"
            /\ StepNamedBy(mResult) = last.step
            /\ mResult.detail = last.outcome.stderr


(***************************************************************************)
(* C24: the scan after a batch.                                            *)
(***************************************************************************)

\* C24: the scan that follows a batch reports every file-backed target
\* the batch mutated successfully as that mutation left it: configured
\* with the batch's token after an Add or an Update, not configured and
\* with a null token after a Remove.
C24_ScanReflectsMutation ==
  [][ ( /\ bPc = "batchEnd"
        /\ bPc' = "menu"
        /\ batch.kind \in {"add", "update", "remove"} )
      => \A i \in DOMAIN batch.lines :
           LET id == batch.targets[i]
           IN (id \in JsonClients /\ MutationSucceeded(id)) =>
                \A j \in DOMAIN results' :
                  results'[j].id = id =>
                    IF batch.kind = "remove"
                      THEN /\ ~results'[j].configured
                           /\ results'[j].token = Null
                      ELSE /\ results'[j].detected
                           /\ results'[j].configured
                           /\ results'[j].token = Str(batch.token) ]_vars

\* The scan after a batch reports Cursor as configured with the token
\* typed at that batch's prompt.
C24_Witness ==
  /\ mode = "doctor"
  /\ bPc = "menu"
  /\ nBatches >= 1
  /\ ResultOf("cursor").configured
  /\ ResultOf("cursor").token = Str("figd_C")


(***************************************************************************)
(* C25: a failed add or update.                                            *)
(***************************************************************************)

\* C25: a target that an Add or Update batch, or configureClients,
\* reports as failed has the integration it had when the batch began: the
\* same config file, or the same entry in the claude CLI's store.
C25_FailedMutationKeepsState ==
  batch.kind \in {"add", "update", "wizard"} =>
    \A i \in DOMAIN batch.lines :
      batch.lines[i].status = "failed" =>
        LET id == batch.targets[i]
        IN IF id = "claude-code"
             THEN cli.entry = batch.start.cli.entry
             ELSE files[id] = batch.start.files[id]


(***************************************************************************)
(* C26: the shape of a scan result.                                        *)
(***************************************************************************)

\* C26: in the results of every scan, a client reported as configured is
\* reported as detected, a token is reported only for a configured
\* file-backed client, and Claude Code's token is null.
C26_ScanResultShape ==
  \A i \in DOMAIN results :
    /\ results[i].configured => results[i].detected
    /\ results[i].token # Null =>
         /\ results[i].configured
         /\ results[i].id \in JsonClients
    /\ results[i].id = "claude-code" => results[i].token = Null

\* A scan has reported Claude Code as configured, with a null token,
\* Claude Desktop as configured with its token, and Cursor as detected and
\* not configured.
C26_Witness ==
  /\ mode = "doctor"
  /\ bPc = "menu"
  /\ cli.entry # Absent
  /\ ResultOf("claude-code").configured
  /\ ResultOf("claude-code").token = Null
  /\ ResultOf("claude-desktop").configured
  /\ ResultOf("claude-desktop").token = Str("figd_A")
  /\ ResultOf("cursor").detected
  /\ ~ResultOf("cursor").configured
  /\ ResultOf("cursor").token = Null


(***************************************************************************)
(* C27: connected and the handshake.                                       *)
(***************************************************************************)

\* C27: a bridge wait that bound a listener is settled as connected only
\* by an upgrade request that was answered with the 101 response; a
\* request without a sec-websocket-key header gets no response and does
\* not settle the wait as connected.
C27_ConnectedAfterHandshake ==
  \A w \in WaitIds :
    (srv[w].bound /\ srv[w].outcome = "connected") =>
      /\ srv[w].first = "upgrade"
      /\ srv[w].handshake = "sent"


(***************************************************************************)
(* C28: configureClaudeCode and Claude Code running.                       *)
(***************************************************************************)

\* C28: in a batch that configures Claude Code, a 'claude mcp remove' or
\* 'claude mcp add' comes right after the check that found Claude Code
\* not running (the add possibly after the remove), no command has been
\* invoked while the retry-or-skip prompt is open, and after skip no
\* command has been invoked, the CLI's store is as it was, and the target
\* is neither in configureClients' result nor reported with a success
\* line.
C28_ClaudeOnlyWhenNotRunning ==
  batch.kind \in {"add", "update", "wizard"} =>
    LET ev == batch.events
    IN /\ \A i \in DOMAIN ev :
            ev[i].ev \in {"mcp-remove", "mcp-add"} =>
              /\ i > 1
              /\ \/ ev[i - 1].ev = "not-running"
                 \/ ev[i].ev = "mcp-add" /\ ev[i - 1].ev = "mcp-remove"
                                         /\ i > 2
                                         /\ ev[i - 2].ev = "not-running"
       /\ bPc = "running" => OpsOn("claude-code") = <<>>
       /\ (\E i \in DOMAIN ev : ev[i].ev = "skip") =>
            /\ OpsOn("claude-code") = <<>>
            /\ cli = batch.start.cli
            /\ "claude-code" \notin SeqRange(batch.configured)
            /\ \A k \in DOMAIN batch.lines :
                 batch.lines[k].id = "claude-code"
                   => batch.lines[k].status # "ok"


(***************************************************************************)
(* C29: the success dashboard.                                             *)
(***************************************************************************)

\* C29: the dashboard is the last thing runHealthCheck prints, and it is
\* printed only when the last check succeeded: the last bridge wait
\* returned connected, or the last fetch of the debug port got a response.
\* A failed probe of the debug port is followed by the retry-or-exit
\* prompt, and a health check that ended because the operator was not
\* ready, chose exit, or cancelled has printed no dashboard.
C29_DashboardOnlyAfterSuccess ==
  /\ \A i \in DOMAIN hLog :
       /\ hLog[i] = "dashboard" =>
            /\ i = Len(hLog)
            /\ hPc = "done"
            /\ hResult = "dashboard"
            /\ waits >= 1
            /\ IF hMethod = "bridge"
                 THEN /\ srv[waits].outcome = "connected"
                      /\ srv[waits].pc = "returned"
                 ELSE srv[waits].outcome = "response"
       /\ hLog[i] = "cdp-fail" =>
            IF i < Len(hLog)
              THEN hLog[i + 1] \in {"retry", "incomplete"}
              ELSE hPc = "action" \/ (hPc = "done" /\ hResult = "thrown")
  /\ hResult = "dashboard" => (hLog # <<>> /\ hLog[Len(hLog)] = "dashboard")
  /\ (hMethod = "cdp" /\ waits >= 1 /\ srv[waits].outcome = "no-response")
       => /\ hResult # "dashboard"
          /\ \E i \in DOMAIN hLog : hLog[i] = "cdp-fail"
  /\ hResult \in {"notReady", "exit", "cancelled", "thrown"} =>
       /\ hPc = "done"
       /\ \A i \in DOMAIN hLog : hLog[i] # "dashboard"

\* On the debug-port channel a first probe got no response, the operator
\* chose retry, and the second probe got one: the dashboard is shown.
C29_Witness ==
  /\ hMethod = "cdp"
  /\ waits = 2
  /\ srv[1].outcome = "no-response"
  /\ srv[2].outcome = "response"
  /\ hResult = "dashboard"
  /\ hLog = <<"cdp-fail", "retry", "cdp-ok", "dashboard">>


(***************************************************************************)
(* utils/platform.ts: runCommandWithSpinner and runSingleCommand, with the *)
(* events of each attempt's child process and timer.                       *)
(***************************************************************************)

\* new Promise(executor) of runSingleCommand: the spinner interval is set,
\* the child is spawned, the timer is set when options.timeout is.
runSingleCommand(timeout) ==
  [child |-> "running", timer |-> IF timeout THEN "armed" ELSE "none",
   spinner |-> TRUE, promise |-> "pending", error |-> NoError,
   first |-> NoOutcome, calls |-> 0]

\* A promise whose resolve and reject functions overwrite an earlier
\* settlement.
settle_Overwrite(a, o) ==
  [a EXCEPT !.promise = IF o.kind = "ok" THEN "resolved" ELSE "rejected",
            !.error = IF o.kind = "ok" THEN NoError ELSE commandError(o),
            !.first = IF a.promise = "pending" THEN o ELSE @,
            !.calls = @ + 1]

\* resolve() for the outcome ok, reject(error) for the others: only the
\* first call settles the promise.
settle(a, o) ==
  IF a.promise = "pending"
    THEN [a EXCEPT !.promise = IF o.kind = "ok" THEN "resolved" ELSE "rejected",
                   !.error = IF o.kind = "ok" THEN NoError ELSE commandError(o),
                   !.first = o,
                   !.calls = @ + 1]
    ELSE [a EXCEPT !.calls = @ + 1]

\* A handler of attempt k has run and left the attempt as a (after its
\* cleanup, and its call of resolve or reject with the outcome o).  When
\* that settled the promise the loop awaits, the loop goes on in the same
\* turn: return, throw, or attempt++ and the next runSingleCommand.
HandlerRan(k, a, o) ==
  IF att[k].promise = "pending" /\ rPc = "await" /\ k = attempt
    THEN IF o.kind = "ok"
           THEN /\ att' = [att EXCEPT ![k] = a]
                /\ rPc' = "done"
                /\ rResult' = [type |-> "returned"]
                /\ UNCHANGED attempt
           ELSE IF attempt = retries
                  THEN /\ att' = [att EXCEPT ![k] = a]
                       /\ rPc' = "done"
                       /\ rResult' = a.error
                       /\ UNCHANGED attempt
                  ELSE /\ attempt' = attempt + 1
                       /\ att' = [att EXCEPT ![k] = a,
                                             ![attempt + 1] = runSingleCommand(rTimeout)]
                       /\ UNCHANGED <<rPc, rResult>>
    ELSE /\ att' = [att EXCEPT ![k] = a]
         /\ UNCHANGED <<rPc, rResult, attempt>>

InitCommand ==
  /\ cPc = "idle"
  /\ cx = EmptyObj
  /\ ct = ""
  /\ cm = NpxMethod
  /\ cOut = Undefined
  /\ cOut2 = Undefined
  /\ cFile = FileMissing
  /\ cInferred = Undefined
  /\ fPc = "idle"
  /\ fFile = FileMissing
  /\ fScanned = Undefined
  /\ fRemoved = Undefined
  /\ mPc = "idle"
  /\ mDir = [path |-> "", state |-> "absent"]
  /\ mSteps = <<>>
  /\ mResult = Undefined
  /\ rPc = "call"
  /\ retries \in 0..MaxRetries
  /\ rTimeout \in BOOLEAN
  /\ attempt = 0
  /\ att = [k \in AttemptIds |-> NoAttempt]
  /\ rResult = Undefined
  /\ HealthCheckIdle
  /\ BatchIdle

\* The frame of every step of a call of runCommandWithSpinner.
RunFrame ==
  UNCHANGED <<cPc, cx, ct, cm, cOut, cOut2, cFile, cInferred, fileVars,
              mPc, mDir, mSteps, mResult, retries, rTimeout, hcVars,
              batchVars>>

\* The call, up to the first await: attempt 0 is started.
CallRun ==
  /\ rPc = "call"
  /\ rPc' = "await"
  /\ att' = [att EXCEPT ![0] = runSingleCommand(rTimeout)]
  /\ UNCHANGED <<attempt, rResult>>
  /\ RunFrame

\* The child of attempt k emits 'close': after a spawn error with a
\* negative code, otherwise with the code the process ended with.
ChildClose(k, o) ==
  /\ att[k].child \in {"running", "killed", "errored"}
  /\ o.kind \in {"ok", "exit"}
  /\ att[k].child = "errored" => (o.kind = "exit" /\ o.stderr = "")
  /\ HandlerRan(k, settle([att[k] EXCEPT !.child = "closed",
                                         !.spinner = FALSE], o), o)
  /\ RunFrame

\* The child of attempt k emits 'error': the command could not be spawned.
ChildError(k) ==
  /\ att[k].child = "running"
  /\ LET o == [kind |-> "spawn", stderr |-> ""]
     IN HandlerRan(k, settle([att[k] EXCEPT !.child = "errored",
                                            !.spinner = FALSE], o), o)
  /\ RunFrame

\* The timer of attempt k fires; nothing ever clears it.
TimeoutFires(k) ==
  /\ att[k].timer = "armed"
  /\ LET o == [kind |-> "timeout", stderr |-> ""]
     IN HandlerRan(k, settle([att[k] EXCEPT
                                !.timer = "fired",
                                !.child = IF @ = "running" THEN "killed" ELSE @,
                                !.spinner = FALSE], o), o)
  /\ RunFrame

NextCommand ==
  \/ CallRun
  \/ \E k \in AttemptIds, o \in CommandOutcomes : ChildClose(k, o)
  \/ \E k \in AttemptIds : ChildError(k)
  \/ \E k \in AttemptIds : TimeoutFires(k)

\* The event loop runs the callback of a timer that is due.
SpecCommand ==
  /\ InitCommand
  /\ [][NextCommand]_vars
  /\ WF_vars(\E k \in AttemptIds : TimeoutFires(k))

\* What an attempt's promise is, given the first call of resolve or reject.
PromiseOf(first) ==
  CASE first.kind = "none" -> "pending"
    [] first.kind = "ok" -> "resolved"
    [] OTHER -> "rejected"

C30_AttemptsInv ==
  /\ attempt <= retries
  /\ \A k \in AttemptIds :
       /\ att[k].child # "none" <=> (rPc # "call" /\ k <= attempt)
       /\ att[k].promise = PromiseOf(att[k].first)
       /\ att[k].error = IF att[k].promise = "rejected"
                           THEN commandError(att[k].first) ELSE NoError
       /\ att[k].first.kind \in {"ok", "exit"} => att[k].child = "closed"
       /\ att[k].first.kind = "spawn" => att[k].child \in {"errored", "closed"}
       /\ att[k].first.kind = "timeout" => att[k].timer = "fired"
       /\ att[k].promise # "pending" => att[k].calls >= 1
       /\ k < attempt => att[k].promise = "rejected"
  /\ rPc = "await" => (att[attempt].promise = "pending" /\ rResult = Undefined)
  /\ rPc = "done" =>
       IF att[attempt].promise = "resolved"
         THEN rResult = [type |-> "returned"]
         ELSE /\ att[attempt].promise = "rejected"
              /\ attempt = retries
              /\ rResult = att[attempt].error

\* C30: runCommandWithSpinner with retries = r starts at most r+1 attempts,
\* returns at the first attempt that succeeds and starts none after it,
\* and otherwise throws the error of attempt r+1.  Each attempt's promise
\* is settled by the first of exit code 0 (success), non-zero exit, spawn
\* error and timeout (failure), and later events of the attempt (a timer
\* firing after the command completed among them) change neither the
\* attempt's outcome nor the call's result.  With a timeout set, a call
\* that is awaiting an attempt ends.
C30_BoundedRetries ==
  /\ []C30_AttemptsInv
  /\ (rTimeout /\ rPc = "await") ~> (rPc = "done")

\* With retries = 2 the first attempt failed with a non-zero exit code, the
\* second timed out, the third exited with code 0 and the call returned;
\* afterwards the timers of the first and third attempts fired.
C30_Witness ==
  /\ retries = 2
  /\ rPc = "done"
  /\ rResult = [type |-> "returned"]
  /\ att[0].first.kind = "exit"
  /\ att[1].first.kind = "timeout"
  /\ att[2].first.kind = "ok"
  /\ att[0].timer = "fired"
  /\ att[2].timer = "fired"
  /\ att[2].calls = 2


====
